---- MODULE Spec2Model ----
(***************************************************************************)
(* up, the Ultimate Plumber (src/up.go): the capture buffer Buf with its   *)
(* capture task, Pause and readers, the Subprocess started per command     *)
(* revision, and the main loop of the controller.                          *)
(*                                                                         *)
(* Every critical section of Buf.mu is one step; Cond.Wait splits a        *)
(* section in two (sleeping, then re-acquiring the lock after a            *)
(* Broadcast).  Bytes are strings; the i-th byte of the producer is        *)
(* ToString(i), so a lost, duplicated or reordered byte shows.             *)
(*                                                                         *)
(* Three specifications share the variables and the steps of the tasks:    *)
(*   BufSpec  a Buf with its capture task, under any calls of Pause,       *)
(*            NewReader(true), NewReader(false) and DrawStatus             *)
(*            (FairBufSpec adds the fairness of its goroutines);           *)
(*   SubSpec  a Subprocess from StartSubprocess on, with the stdin Buf it  *)
(*            reads, under any calls of Kill and of Pause (FairSubSpec     *)
(*            adds the fairness of the goroutines);                        *)
(*   Spec     the main loop and what it calls.  The steps of the child, of *)
(*            cmd.Wait and of the copy of cmd.Stdin belong to SubSpec:     *)
(*            main reads nothing that they write.                          *)
(* Three more cover what the terminal shows and takes:                     *)
(*   EditorSpec  the Editor under any calls of its methods;                *)
(*   KeySpec, DrawSpec  a BufView under calls of HandleKey and of DrawTo;  *)
(*   ViewSpec    the main loop with the keys of the view.                  *)
(* And four cover single functions and orders of steps:                    *)
(*   TabSpec      a tabExpander under calls of ReadRune;                   *)
(*   TabDrawSpec  DrawTo on one line with tabs;                            *)
(*   ScriptSpec   Ctrl-X and writeScript, whatever fails;                  *)
(*   NotifySpec   the capture task with its go notify() as a step of its   *)
(*                own, and the redraws that the notifications cause.       *)
(***************************************************************************)
EXTENDS Integers, Sequences, FiniteSets, TLC

\* One "MiB" of buffer, scaled down: --buf N gives a capacity of N * MiB.
MiB == 3
\* Largest destination slice a reader passes to Read.
MaxRead == 2
\* Subprocesses the controller may start in one run.
MaxProcs == 2
\* Interrupt events the terminal's event queue holds.
MaxPending == 1

\* The producer may hold more than the buffer can take.
\* The widest and the highest Region, and the furthest scroll to the right.
MaxW == 3
MaxH == 2
MaxX == 2
\* The most calls of DrawTo that are counted.
MaxDraws == 2

\* The longest value of the Editor, and the most runes one insert is given.
MaxValue == 3
MaxInsert == 2

\* The longest run of letters that a line given to a tabExpander starts
\* with, and the most runes that follow it.
MaxLead == 8
MaxTail == 3

\* The script files up1.sh ... that writeScript tries (999 of them).
MaxScripts == 2

MaxInput == MiB + 1

Min(a, b) == IF a < b THEN a ELSE b

\* The values of the --buf flag that are modelled.
BufSizes == {0, 1}
\* The command line of the editor, as the controller sees it (Editor.String).
Commands == {"", "cat", "wc"}
\* Errors of exec.Cmd.Start.
ExecErrors == {"exec: not found"}
\* Errors of exec.Cmd.Wait.
WaitErrors == {"exit status 1"}

VARIABLES
    bufsize,        \* *bufsize, the --buf flag
    unsafeMode,     \* *unsafeMode, the --unsafe-full-throttle flag
    input,          \* all the bytes the producer will ever write to stdin
    inpos,          \* how many of them the capture task has read
    stdinCapture,   \* the Buf of stdin: bytes, n, status, cap
    capPc,          \* position of stdinCapture's capture task
    capRes,         \* (n, err) of its last r.Read
    sid,            \* number of subprocesses started so far; the variables
                    \* below are those of the latest one
    cancelled,      \* the subprocesses whose cancel() has been called
    child,          \* the latest subprocess's child process
    waitErr,        \* what cmd.Wait will return for it
    waitPc,         \* position of the goroutine around cmd.Wait
    rd,             \* cmd.Stdin: the blocking reader over stdinCapture
    pipe,           \* io.Pipe behind cmd.Stdout/cmd.Stderr
    out,            \* Subprocess.Buf
    outPc,          \* position of its capture task
    outRes,         \* (n, err) of its last r.Read
    pc,             \* position of main
    command,        \* commandEditor.String()
    lastCommand,
    restart,
    current,        \* commandSubprocess (0 is nil)
    view,           \* commandOutput.Buf (0 is stdinCapture)
    glyph,          \* the cell DrawStatus has set ("" before the first redraw)
    shown,          \* what the snapshot reader of the last redraw returned
    interrupts,     \* EventInterrupts posted and not yet polled
    editor,         \* commandEditor: value, killspace, cursor
    edOp,           \* the last call on the Editor and its arguments
    edUndo,         \* value and cursor before the last insert, how many
                    \* runes it was given, and how many delete(-1) are
                    \* still to follow it (-1: none pending)
    viewX,          \* commandOutput.X
    viewY,          \* commandOutput.Y
    region,         \* W and H of the Region that commandOutput is drawn to
    screen,         \* the cells of that Region, by row and column
    draws,          \* the calls of DrawTo since X, Y or the Buf changed
    setcells,       \* the calls of region.SetCell by the last of them: x, y
                    \* and the width of the rune
    vOp,            \* the last key given to BufView.HandleKey, and what
                    \* it returned
    tabs,           \* a tabExpander: the runes its reader still has, t.x,
                    \* and the runes it was given and has returned
    script,         \* what writeScript was called with, the files there
                    \* are, and what it wrote to them and to stderr
    notifs          \* the calls of notify() by the capture task of stdin:
                    \* the goroutines started and not yet run, the events
                    \* they posted that are not yet polled, and the one
                    \* polled last, each with what the source had handed
                    \* over and whether it had signalled EOF

vars == <<bufsize, unsafeMode, input, inpos, stdinCapture, capPc, capRes,
          sid, cancelled, child, waitErr, waitPc, rd, pipe,
          out, outPc, outRes, pc, command, lastCommand, restart, current,
          view, glyph, shown, interrupts, editor, edOp, edUndo,
          viewX, viewY, region, screen, draws, setcells, vOp, tabs,
          script, notifs>>

ctlVars == <<pc, command, lastCommand, restart, current, view>>
screenVars == <<glyph, shown>>
stdinVars == <<input, inpos, stdinCapture, capPc, capRes>>
handleVars == <<sid, cancelled>>
procVars == <<child, waitErr, waitPc, pipe>>
outVars == <<out, outPc, outRes>>
flagVars == <<bufsize, unsafeMode>>
editorVars == <<editor, edOp, edUndo>>
\* What the Buf, the Subprocess and the loop of main do not touch
viewVars == <<viewX, viewY, region, screen, draws, setcells, vOp>>
\* What only a call of tabExpander.ReadRune or of writeScript touches, and
\* what only the steps that follow a notify() touch
callVars == <<tabs, script, notifs>>
uiVars == <<editorVars, viewVars, callVars>>
\* All the rest
coreVars == <<flagVars, stdinVars, handleVars, procVars, rd, outVars,
              ctlVars, screenVars, interrupts>>

----------------------------------------------------------------------------
(* Buf *)

\* The producer's bytes
Producer(len) == [i \in 1..len |-> ToString(i)]

\* n, err of capture before its first Read (and once they are dead)
NoRes == [n |-> 0, err |-> "nil"]

NewBuf(size) ==
    [bytes |-> <<>>, n |-> 0, status |-> "bufReading", cap |-> size]

\* Mutant: the bytes read are stored before the published ones
StoreFront(b, data) == [b EXCEPT !.bytes = data \o SubSeq(b.bytes, 1, b.n)]

\* r.Read(b.bytes[b.n:]) stores the bytes read behind the first n
Store(b, data) == [b EXCEPT !.bytes = SubSeq(b.bytes, 1, b.n) \o data]

\* Mutant: the published length is overwritten instead of advanced
PublishAssign(b, res) ==
    [b EXCEPT !.n = res.n,
              !.status = IF res.err = "EOF" THEN "bufEOF" ELSE b.status]

\* The locked part of capture once the buffer is not paused
Publish(b, res) ==
    [b EXCEPT !.n = b.n + res.n,
              !.status = IF res.err = "EOF" THEN "bufEOF" ELSE b.status]

\* Mutant: a full buffer does not end the capture
CaptureNextGrowing(b, res) ==
    IF res.err = "EOF" THEN "done"
    ELSE IF res.err # "nil" THEN "panic"
    ELSE "read"

\* err after the locked part, and where capture goes from there
CaptureNext(b, res) ==
    LET err == IF b.n = b.cap THEN "EOF" ELSE res.err
    IN  IF err = "EOF" THEN "done"
        ELSE IF err # "nil" THEN "panic"
        ELSE "read"

\* Mutant: Pause(false) does not resume
PauseNoResume(b, pause) ==
    IF pause /\ b.status = "bufReading"
    THEN [b EXCEPT !.status = "bufPaused"]
    ELSE b

\* Mutant: Pause(true) does not look at the status
PauseAlways(b, pause) ==
    IF pause
    THEN [b EXCEPT !.status = "bufPaused"]
    ELSE IF b.status = "bufPaused"
         THEN [b EXCEPT !.status = "bufReading"]
         ELSE b

Pause(b, pause) ==
    IF pause
    THEN IF b.status = "bufReading"
         THEN [b EXCEPT !.status = "bufPaused"]
         ELSE b
    ELSE IF b.status = "bufPaused"
         THEN [b EXCEPT !.status = "bufReading"]
         ELSE b

\* Mutant: Pause never broadcasts
PauseSilent(b, pause) == FALSE

\* Pause broadcasts exactly when it changes the status
PauseBroadcasts(b, pause) ==
    IF pause THEN b.status = "bufReading" ELSE b.status = "bufPaused"

\* Mutant: the capacity is tested before the status
DrawStatusFullFirst(b) ==
    IF b.n = b.cap THEN "+"
    ELSE IF b.status = "bufPaused" THEN "#"
    ELSE IF b.status = "bufEOF" THEN " "
    ELSE "~"

DrawStatus(b) ==
    IF b.status = "bufPaused" THEN "#"
    ELSE IF b.status = "bufEOF" THEN " "
    ELSE IF b.n = b.cap THEN "+"
    ELSE "~"

\* Mutant: a blocking reader behaves as a snapshot reader
ReaderWaitsNever(b, blocking, i) == FALSE

\* The loop condition of the reader, with end = b.n
ReaderWaits(b, blocking, i) ==
    blocking /\ b.n = i /\ b.status = "bufReading" /\ b.n < b.cap

\* Mutant: the copy starts one byte late
ReadChunkSkip(b, i, end, lenp) ==
    SubSeq(b.bytes, i + 2, i + Min(lenp, end - i))

\* copy(p, b.bytes[i:end]) with len(p) = lenp
ReadChunk(b, i, end, lenp) ==
    SubSeq(b.bytes, i + 1, i + Min(lenp, end - i))

\* A reader opened at offset i and read until it returns EOF
RECURSIVE ReadAll(_, _, _)
ReadAll(b, i, lenp) ==
    LET data == ReadChunk(b, i, b.n, lenp)
    IN  IF Len(data) = 0 THEN <<>>
        ELSE data \o ReadAll(b, i + Len(data), lenp)

\* Mutant: the Broadcast wakes no reader
WakeNobody(r) == r

\* Cond.Broadcast as a waiting reader sees it
Wake(r) == IF r.pc = "wait" THEN [r EXCEPT !.pc = "woken"] ELSE r

\* Mutant: no event is posted
PostDropped(q) == q

\* triggerRefresh: PostEvent drops the event when the queue is full
PostInterrupt(q) == Min(q + 1, MaxPending)

----------------------------------------------------------------------------
(* Subprocess *)

\* fmt.Fprintf(w, "up: %s", err)
ErrText(err) == <<"up: ", err>>

\* rd.pc: "idle" before a call of Read, "wait" in b.cond.Wait(), "woken" after
\* a Broadcast, "copy" once the lock is released, "ret" when Read has
\* returned k bytes (k = 0 is io.EOF), "done" when nothing reads any more.
\* sawPause remembers that a Pause(true) has woken the call in progress;
\* got is what the calls of Read have copied into p so far.
NoReader ==
    [pc |-> "none", i |-> 0, end |-> 0, k |-> 0, sawPause |-> FALSE,
     got |-> <<>>]

\* stdin.NewReader(true)
NewReader == [NoReader EXCEPT !.pc = "idle"]

NewPipe == [pend |-> <<>>, closed |-> FALSE]

\* Mutant: Kill forgets to cancel
KillNothing(s, c) == c

\* Subprocess.Kill on handle s; c is the set of cancelled subprocesses
Kill(s, c) == IF s = 0 THEN c ELSE c \cup {s}

----------------------------------------------------------------------------
(* Editor *)

\* The runes that are typed: a letter of a word and a whitespace
Runes == {"a", " "}

\* unicode.IsSpace
IsSpace(r) == r \in {" ", "\t"}

\* The sequences over S of the lengths lo..hi
SeqsOf(S, lo, hi) == UNION {[1..k -> S] : k \in lo..hi}

NewEditor(value) ==
    [value |-> value, killspace |-> <<>>, cursor |-> Len(value)]

\* Before the first call on the Editor
NoOp == [name |-> "new", arg |-> <<>>]

\* No insert is being undone
NoUndo == [value |-> <<>>, cursor |-> 0, of |-> 0, left |-> -1]

\* commandEditor = NewEditor("| ", value)
EditorStart(value) ==
    /\ editor = NewEditor(value)
    /\ edOp = NoOp
    /\ edUndo = NoUndo

\* Mutant: the runes are put behind the rune under the cursor
InsertBehind(e, ch) ==
    LET c == Min(e.cursor + 1, Len(e.value))
    IN  [e EXCEPT !.value = SubSeq(e.value, 1, c) \o ch
                              \o SubSeq(e.value, c + 1, Len(e.value)),
                  !.cursor = e.cursor + Len(ch)]

\* e.insert(ch...): slices.Insert(e.value, e.cursor, ch...)
Insert(e, ch) ==
    [e EXCEPT !.value = SubSeq(e.value, 1, e.cursor) \o ch
                          \o SubSeq(e.value, e.cursor + 1, Len(e.value)),
              !.cursor = e.cursor + Len(ch)]

\* Mutant: the cursor stays where it was, if the value is still that long
DeleteKeepsCursor(e, dx) ==
    LET pos == e.cursor + dx
    IN  IF pos < 0 \/ pos >= Len(e.value) THEN e
        ELSE [e EXCEPT !.value = SubSeq(e.value, 1, pos)
                                  \o SubSeq(e.value, pos + 2, Len(e.value)),
                       !.cursor = Min(e.cursor, Len(e.value) - 1)]

\* e.delete(dx): slices.Delete(e.value, pos, pos+1)
Delete(e, dx) ==
    LET pos == e.cursor + dx
    IN  IF pos < 0 \/ pos >= Len(e.value) THEN e
        ELSE [e EXCEPT !.value = SubSeq(e.value, 1, pos)
                                  \o SubSeq(e.value, pos + 2, Len(e.value)),
                       !.cursor = pos]

\* Mutant: the kill space is replaced also when nothing is killed
KillAlways(e) ==
    [e EXCEPT !.killspace = SubSeq(e.value, e.cursor + 1, Len(e.value)),
              !.value = SubSeq(e.value, 1, e.cursor)]

\* e.kill()
EditorKill(e) ==
    [e EXCEPT !.killspace =
                  IF e.cursor # Len(e.value)
                  THEN SubSeq(e.value, e.cursor + 1, Len(e.value))
                  ELSE e.killspace,
              !.value = SubSeq(e.value, 1, e.cursor)]

\* Mutant: the scan does not pass the whitespace before the cursor
RECURSIVE RuboutPosNoTrailing(_, _)
RuboutPosNoTrailing(v, pos) ==
    IF pos # 0 /\ ~IsSpace(v[pos])
    THEN RuboutPosNoTrailing(v, pos - 1)
    ELSE pos

\* The loop of unixWordRubout, from pos (an index of Go) downwards
RECURSIVE RuboutPos(_, _)
RuboutPos(v, pos) ==
    IF pos # 0 /\ (IsSpace(v[pos + 1]) \/ ~IsSpace(v[pos]))
    THEN RuboutPos(v, pos - 1)
    ELSE pos

\* e.unixWordRubout()
UnixWordRubout(e) ==
    IF e.cursor <= 0 THEN e
    ELSE LET pos == RuboutPos(e.value, e.cursor - 1)
         IN  [e EXCEPT !.killspace = SubSeq(e.value, pos + 1, e.cursor),
                       !.value = SubSeq(e.value, 1, pos)
                                  \o SubSeq(e.value, e.cursor + 1,
                                            Len(e.value)),
                       !.cursor = pos]

\* Mutant: Right does not look at the length of the value
MoveCursorUnchecked(e, k) ==
    CASE k = "left" ->
            IF e.cursor > 0 THEN [e EXCEPT !.cursor = e.cursor - 1] ELSE e
      [] k = "right" -> [e EXCEPT !.cursor = e.cursor + 1]
      [] k = "home" -> [e EXCEPT !.cursor = 0]
      [] k = "end" -> [e EXCEPT !.cursor = Len(e.value)]

\* The movement keys of HandleKey
MoveCursor(e, k) ==
    CASE k = "left" ->
            IF e.cursor > 0 THEN [e EXCEPT !.cursor = e.cursor - 1] ELSE e
      [] k = "right" ->
            IF e.cursor < Len(e.value)
            THEN [e EXCEPT !.cursor = e.cursor + 1] ELSE e
      [] k = "home" -> [e EXCEPT !.cursor = 0]
      [] k = "end" -> [e EXCEPT !.cursor = Len(e.value)]

----------------------------------------------------------------------------
(* BufView, RowView, tabExpander *)

Max(a, b) == IF a > b THEN a ELSE b

\* const scrollX in HandleKey
scrollX == 8
\* const tabWidth in tabExpander.ReadRune
tabWidth == 8
\* len(buf) in count
countBuf == 256

\* The bytes of a Buf that is viewed: a letter, the newline, the tab, the
\* carriage return (a control character), and the two bytes that encode a
\* wide rune
Bytes == {"a", "\n", "\t", "\r", "w1", "w2"}

\* The keys of BufView.HandleKey, and one that it does not handle
ViewKeys == {"up", "down", "pgdn", "pgup", "left", "right", "home"}

\* Before the first call of HandleKey
NoViewOp == [key |-> "none", scrollY |-> 0, handled |-> FALSE]

\* The cells of a cleared screen
Blank(W, H) == [y \in 0..(H - 1) |-> [x \in 0..(W - 1) |-> " "]]

\* count(r, '\n') over the bytes that the reader returns
RECURSIVE Count(_, _)
Count(data, b) ==
    IF data = <<>> THEN 0
    ELSE (IF Head(data) = b THEN 1 ELSE 0) + Count(Tail(data), b)

\* Mutant: Y may be the number of lines, one behind the last line
NormalizeYPastEnd(b, y) ==
    LET nlines == Count(ReadAll(b, 0, countBuf), "\n") + 1
    IN  Max(0, Min(nlines, y))

\* v.normalizeY() with v.Buf = b and v.Y = y
NormalizeY(b, y) ==
    LET nlines == Count(ReadAll(b, 0, countBuf), "\n") + 1
    IN  Max(0, Min(nlines - 1, y))

\* BufView.HandleKey(ev, scrollY): the new X and Y and what is returned
ViewHandleKey(b, x, y, key, page) ==
    IF key = "up" THEN [X |-> x, Y |-> NormalizeY(b, y - 1), ok |-> TRUE]
    ELSE IF key = "down"
    THEN [X |-> x, Y |-> NormalizeY(b, y + 1), ok |-> TRUE]
    ELSE IF key = "pgdn"
    THEN [X |-> x, Y |-> NormalizeY(b, y + page), ok |-> TRUE]
    ELSE IF key = "pgup"
    THEN [X |-> x, Y |-> NormalizeY(b, y - page), ok |-> TRUE]
    ELSE IF key = "left"
    THEN [X |-> Max(0, x - scrollX), Y |-> y, ok |-> TRUE]
    ELSE IF key = "right" THEN [X |-> x + scrollX, Y |-> y, ok |-> TRUE]
    ELSE IF key = "home" THEN [X |-> 0, Y |-> y, ok |-> TRUE]
    ELSE [X |-> x, Y |-> y, ok |-> FALSE]

\* Mutant: at io.EOF nothing is left to draw
RECURSIVE SkipLinesToEnd(_, _)
SkipLinesToEnd(data, y) ==
    IF y <= 0 THEN data
    ELSE IF \E i \in 1..Len(data) : data[i] = "\n"
    THEN LET i == CHOOSE i \in 1..Len(data) :
                    /\ data[i] = "\n"
                    /\ \A j \in 1..(i - 1) : data[j] # "\n"
         IN  SkipLinesToEnd(SubSeq(data, i + 1, Len(data)), y - 1)
    ELSE <<>>

\* The loop over v.Y at the top of DrawTo: bufr.ReadBytes('\n') y times;
\* at io.EOF what is left is the line that was read last
RECURSIVE SkipLines(_, _)
SkipLines(data, y) ==
    IF y <= 0 THEN data
    ELSE IF \E i \in 1..Len(data) : data[i] = "\n"
    THEN LET i == CHOOSE i \in 1..Len(data) :
                    /\ data[i] = "\n"
                    /\ \A j \in 1..(i - 1) : data[j] # "\n"
         IN  SkipLines(SubSeq(data, i + 1, Len(data)), y - 1)
    ELSE data

\* bufio.Reader.ReadRune over the bytes: a wide rune from its two bytes,
\* utf8.RuneError for a byte that starts or continues no rune
RECURSIVE Decode(_)
Decode(data) ==
    IF data = <<>> THEN <<>>
    ELSE IF Head(data) = "w1" /\ Len(data) >= 2 /\ data[2] = "w2"
    THEN <<"W">> \o Decode(SubSeq(data, 3, Len(data)))
    ELSE IF Head(data) \in {"w1", "w2"}
    THEN <<"?">> \o Decode(Tail(data))
    ELSE <<Head(data)>> \o Decode(Tail(data))

\* runewidth.RuneWidth: 2 for a wide rune, 0 for a control character
RuneWidth(ch) ==
    IF ch = "W" THEN 2 ELSE IF ch \in {"\n", "\r", "\t"} THEN 0 ELSE 1

Spaces(k) == [i \in 1..k |-> " "]

\* No tabExpander: nothing to read, nothing returned
NoTabs == [r |-> <<>>, x |-> 0, in |-> <<>>, out |-> <<>>]

\* tabExpander{r: bufr} over the runes that bufr holds
NewTabs(runes) == [NoTabs EXCEPT !.r = runes, !.in = runes]

\* Mutant: every rune is taken to be one column wide
RECURSIVE ReadRuneNarrow(_)
ReadRuneNarrow(t) ==
    IF t.x < 0
    THEN [t EXCEPT !.x = t.x + 1, !.out = Append(t.out, " ")]
    ELSE LET r == Head(t.r)
             rest == [t EXCEPT !.r = Tail(t.r)]
         IN  IF r \in {"\n", "\r"}
             THEN [rest EXCEPT !.x = 0, !.out = Append(t.out, r)]
             ELSE IF r = "\t"
             THEN ReadRuneNarrow([rest EXCEPT !.x = t.x - tabWidth])
             ELSE [rest EXCEPT !.x = (t.x + 1) % tabWidth,
                               !.out = Append(t.out, r)]

\* t.ReadRune() while t.r is not at EOF: the rune returned is put behind
\* t.out
RECURSIVE ReadRune(_)
ReadRune(t) ==
    IF t.x < 0
    THEN [t EXCEPT !.x = t.x + 1, !.out = Append(t.out, " ")]
    ELSE LET r == Head(t.r)
             rest == [t EXCEPT !.r = Tail(t.r)]
         IN  IF r \in {"\n", "\r"}
             THEN [rest EXCEPT !.x = 0, !.out = Append(t.out, r)]
             ELSE IF r = "\t"
             THEN ReadRune([rest EXCEPT !.x = t.x - tabWidth])
             ELSE [rest EXCEPT !.x = (t.x + RuneWidth(r)) % tabWidth,
                               !.out = Append(t.out, r)]

\* ReadRune returns io.EOF: no space is pending and t.r is at EOF
AtEOF(t) == t.x >= 0 /\ t.r = <<>>

\* The calls of ReadRune until it returns io.EOF; the calls that find
\* t.x < 0 return the spaces still owed, one each
RECURSIVE ReadRunes(_)
ReadRunes(t) ==
    IF AtEOF(t) THEN t
    ELSE IF t.x < 0
    THEN ReadRunes([t EXCEPT !.x = 0, !.out = t.out \o Spaces(-t.x)])
    ELSE ReadRunes(ReadRune(t))

\* What a tabExpander returns for the runes, t.x being x at first
Expand(runes, x) == ReadRunes([NewTabs(runes) EXCEPT !.x = x]).out

\* The runes up to the first newline, and those behind it
FirstLine(runes) ==
    IF \E i \in 1..Len(runes) : runes[i] = "\n"
    THEN LET i == CHOOSE i \in 1..Len(runes) :
                    /\ runes[i] = "\n"
                    /\ \A j \in 1..(i - 1) : runes[j] # "\n"
         IN  [line |-> SubSeq(runes, 1, i - 1),
              rest |-> SubSeq(runes, i + 1, Len(runes)), more |-> TRUE]
    ELSE [line |-> runes, rest |-> <<>>, more |-> FALSE]

\* newRowView(v, y, region) over the cells that row y has
NewRowView(x, W, cells) ==
    [w |-> W, x |-> -x, overflowLeft |-> FALSE, lastRuneW |-> 1,
     cells |-> cells, calls |-> {}]

\* A call of region.SetCell in a row, at column x with the rune ch
SetCellAt(x, ch) == [x |-> x, w |-> Max(RuneWidth(ch), 1)]

\* Mutant: r.putch drops what is outside of the Region itself
PutchInside(r, x, ch) ==
    IF x >= 0 /\ x < r.w
    THEN [r EXCEPT !.cells[x] = ch, !.calls = @ \cup {SetCellAt(x, ch)}]
    ELSE r

\* r.putch(x, ch): region.SetCell drops what is outside of the Region
Putch(r, x, ch) ==
    LET r1 == [r EXCEPT !.calls = @ \cup {SetCellAt(x, ch)}]
    IN  IF x >= 0 /\ x < r.w THEN [r1 EXCEPT !.cells[x] = ch] ELSE r1

\* Mutant: only the first of the cells is set
FillFirst(r, x0, ch, w) ==
    [r EXCEPT !.cells = [c \in 0..(r.w - 1) |->
                            IF c = x0 /\ w > 0 THEN ch ELSE r.cells[c]],
              !.calls = @ \cup {SetCellAt(c, ch) :
                                c \in {c \in 0..(r.w - 1) :
                                            c = x0 /\ w > 0}}]

\* r.fill(x0, ch, w)
Fill(r, x0, ch, w) ==
    [r EXCEPT !.cells = [c \in 0..(r.w - 1) |->
                            IF c >= x0 /\ c < x0 + w /\ c >= 0
                            THEN ch ELSE r.cells[c]],
              !.calls = @ \cup {SetCellAt(c, ch) :
                                c \in {c \in 0..(r.w - 1) :
                                            c >= x0 /\ c < x0 + w}}]

\* Mutant: the rune past the right edge is dropped without a marker
PrintChNoRightMark(r, ch) ==
    LET w == Max(RuneWidth(ch), 1)
        r1 == IF (r.overflowLeft /\ r.x = 0) \/ (r.x < 0 /\ r.x + w > 0)
              THEN Fill(r, 0, "<<", r.x + w)
              ELSE IF r.x < 0 THEN [r EXCEPT !.overflowLeft = TRUE]
              ELSE IF r.x < r.w /\ r.x + w > r.w
              THEN Fill(r, r.x, ">>", r.w - r.x)
              ELSE Putch(r, r.x, ch)
    IN  [r1 EXCEPT !.x = r.x + w, !.lastRuneW = w]

\* r.PrintCh(ch); the markers are written << and >>
PrintCh(r, ch) ==
    LET w == Max(RuneWidth(ch), 1)
        r1 == IF (r.overflowLeft /\ r.x = 0) \/ (r.x < 0 /\ r.x + w > 0)
              THEN Fill(r, 0, "<<", r.x + w)
              ELSE IF r.x < 0 THEN [r EXCEPT !.overflowLeft = TRUE]
              ELSE IF r.x = r.w
              THEN Fill(r, r.x - r.lastRuneW, ">>", r.lastRuneW)
              ELSE IF r.x < r.w /\ r.x + w > r.w
              THEN Fill(r, r.x, ">>", r.w - r.x)
              ELSE Putch(r, r.x, ch)
    IN  [r1 EXCEPT !.x = r.x + w, !.lastRuneW = w]

\* Mutant: the rest of the row is not filled
EndLineNoFill(r) ==
    IF Max(0, r.x) = 0 /\ r.overflowLeft THEN Putch(r, 0, "<<") ELSE r

\* r.EndLine()
EndLine(r) ==
    LET x0 == Max(0, r.x)
    IN  IF x0 = 0 /\ r.overflowLeft
        THEN Fill(Putch(r, 0, "<<"), 1, " ", r.w - 1)
        ELSE Fill(r, x0, " ", r.w - x0)

\* Mutant: the runes behind column w are dropped
RECURSIVE PrintLineClipped(_, _)
PrintLineClipped(r, line) ==
    IF line = <<>> \/ r.x > r.w THEN r
    ELSE PrintLineClipped(PrintCh(r, Head(line)), Tail(line))

\* The columns that the runes of a line take in a row
RECURSIVE LineWidth(_)
LineWidth(line) ==
    IF line = <<>> THEN 0
    ELSE Max(RuneWidth(Head(line)), 1) + LineWidth(Tail(line))

\* PrintCh for each rune of a line; once r.x is behind column w, PrintCh
\* and EndLine set no cell any more: PrintCh does r.putch(r.x, ch) for each
\* of the runes that are left
RECURSIVE PrintLine(_, _)
PrintLine(r, line) ==
    IF line = <<>> THEN r
    ELSE IF r.x > r.w
    THEN [r EXCEPT
            !.x = r.x + LineWidth(line),
            !.lastRuneW = Max(RuneWidth(line[Len(line)]), 1),
            !.calls = @ \cup
                {[x |-> r.x + LineWidth(SubSeq(line, 1, k - 1)),
                  w |-> Max(RuneWidth(line[k]), 1)] : k \in 1..Len(line)}]
    ELSE PrintLine(PrintCh(r, Head(line)), Tail(line))

\* The rows y..H-1 of DrawTo, the runes being what the reader still has
RECURSIVE DrawRows(_, _, _, _, _, _)
DrawRows(runes, x, W, H, y, cells) ==
    IF y >= H THEN cells
    ELSE LET f == FirstLine(runes)
             row == EndLine(PrintLine(NewRowView(x, W, cells[y]), f.line))
         IN  DrawRows(f.rest, x, W, H, y + 1,
                      [cells EXCEPT ![y] = row.cells])

\* The calls of region.SetCell for the rows y..H-1 of DrawTo
RECURSIVE DrawCalls(_, _, _, _, _)
DrawCalls(runes, x, W, H, y) ==
    IF y >= H THEN {}
    ELSE LET f == FirstLine(runes)
             blank == [c \in 0..(W - 1) |-> " "]
             row == EndLine(PrintLine(NewRowView(x, W, blank), f.line))
         IN  {[x |-> c.x, y |-> y, w |-> c.w] : c \in row.calls}
                \cup DrawCalls(f.rest, x, W, H, y + 1)

\* Mutant: the loop over the lines to skip counts v.Y itself down
YAfterDrawCounted(y) == 0

\* DrawTo counts a copy of v.Y down
YAfterDraw(y) == y

\* v.DrawTo(region) on a view of the Buf b at x, y: the cells afterwards
DrawTo(b, x, y, W, H, cells) ==
    LET text == Expand(Decode(SkipLines(ReadAll(b, 0, countBuf), y)), 0)
    IN  DrawRows(text, x, W, H, 0, cells)

\* v.DrawTo(region) on a view of the Buf b at x, y: its calls of
\* region.SetCell
SetCells(b, x, y, W, H) ==
    LET text == Expand(Decode(SkipLines(ReadAll(b, 0, countBuf), y)), 0)
    IN  DrawCalls(text, x, W, H, 0)

\* commandOutput = BufView{} at x, y, and the Region it is drawn to
ViewStart(x, y, W, H) ==
    /\ viewX = x
    /\ viewY = y
    /\ region = [W |-> W, H |-> H]
    /\ screen = Blank(W, H)
    /\ draws = 0
    /\ setcells = {}
    /\ vOp = NoViewOp

----------------------------------------------------------------------------
(* writeScript *)

\* The values of the -e flags (or $SHELL -c) that are modelled
Shells == {<<"sh", "-c">>, <<"awk">>}
\* The values of the -o flag that are modelled
OutputScripts == {"", "out.sh"}

\* What can fail in a call of writeScript: opening the chosen file for
\* another reason than its existence, writing to it, closing it, and the
\* same three for the file of os.CreateTemp
NoFailure == [open |-> FALSE, write |-> FALSE, close |-> FALSE,
              tmpCreate |-> FALSE, tmpWrite |-> FALSE, tmpClose |-> FALSE]
Failures == [DOMAIN NoFailure -> BOOLEAN]

\* writeScript has not been called: the flags, and the up<N>.sh there are
NotWritten(output, shell, exist) ==
    [pc |-> "none", output |-> output, shell |-> shell, exist |-> exist,
     fail |-> NoFailure, written |-> {}, partial |-> {}, stderr |-> <<>>]

NoScript == NotWritten("", <<"sh", "-c">>, {})

\* fmt's %s of a []string: the elements between brackets, spaces between
\* them
RECURSIVE JoinSpace(_)
JoinSpace(strs) ==
    IF Len(strs) <= 1 THEN strs
    ELSE <<Head(strs), " ">> \o JoinSpace(Tail(strs))

SprintSlice(strs) == <<"[">> \o JoinSpace(strs) \o <<"]">>

\* fmt.Fprintf(f, "#!%s\n%s\n", arg, command), arg being printed as arg
ScriptText(arg, cmd) == <<"#!">> \o arg \o <<"\n", cmd, "\n">>

\* fmt.Sprintf("up%d.sh", i)
ScriptName(i) == "up" \o ToString(i) \o ".sh"

\* What the loop over up1.sh ... finds with O_CREATE|O_EXCL: the first
\* number that no file has, 0 when each has one
FirstFree(exist) ==
    IF \A i \in 1..MaxScripts : i \in exist THEN 0
    ELSE CHOOSE i \in 1..MaxScripts :
            i \notin exist /\ \A j \in 1..(i - 1) : j \in exist

\* Mutant: the pipeline is not printed
FallbackSilent(sc, cmd, fname) ==
    [sc EXCEPT !.stderr = sc.stderr \o <<"up: writing: ", fname, " - error">>]

\* fallback_print
FallbackPrint(sc, cmd, fname) ==
    [sc EXCEPT !.stderr = sc.stderr \o <<"up: writing: ", fname, " - error",
                                         "up: | ", cmd>>]

\* fallback_tmp
FallbackTmp(sc, cmd) ==
    LET sc1 == [sc EXCEPT !.stderr = sc.stderr \o <<" - error">>]
    IN  IF sc.fail.tmpCreate THEN FallbackPrint(sc1, cmd, "TMP")
        ELSE IF sc.fail.tmpWrite \/ sc.fail.tmpClose
        THEN FallbackPrint([sc1 EXCEPT !.partial = sc.partial \cup {"tmp"}],
                           cmd, "tmp")
        ELSE [sc1 EXCEPT
                !.written = sc.written \cup
                    {[name |-> "tmp",
                      text |-> ScriptText(SprintSlice(sc.shell), cmd)]},
                !.stderr = sc1.stderr \o <<"up: writing: ", "tmp", " - OK">>]

\* try_file, f being the file name
TryFile(sc, cmd, name) ==
    IF sc.fail.write \/ sc.fail.close
    THEN FallbackTmp([sc EXCEPT !.partial = sc.partial \cup {name}], cmd)
    ELSE [sc EXCEPT
            !.written = sc.written \cup
                {[name |-> name,
                  text |-> ScriptText(<<sc.shell[1]>>, cmd)]},
            !.stderr = sc.stderr \o <<" - OK">>]

\* writeScript(shell, command, tui), the flags and the files being those of
\* sc and the operations named in fail failing
WriteScript(sc, cmd, fail) ==
    LET sc0 == [sc EXCEPT !.pc = "done", !.fail = fail,
                          !.stderr = <<"up: Ultimate Plumber">>]
        free == FirstFree(sc.exist)
    IN  IF sc.output # ""
        THEN LET sc1 == [sc0 EXCEPT !.stderr =
                            sc0.stderr \o <<"up: writing ", sc.output>>]
             IN  IF fail.open THEN FallbackTmp(sc1, cmd)
                 ELSE TryFile(sc1, cmd, sc.output)
        ELSE LET sc1 == [sc0 EXCEPT !.stderr =
                            sc0.stderr \o <<"up: writing: .">>]
             IN  IF free = 0
                 THEN FallbackTmp(
                        [sc1 EXCEPT !.stderr = sc1.stderr \o
                            <<" - error: up1.sh-up999.sh already exist">>],
                        cmd)
                 ELSE IF fail.open THEN FallbackTmp(sc1, cmd)
                 ELSE TryFile([sc1 EXCEPT !.stderr = sc1.stderr \o
                                            <<"/", ScriptName(free)>>],
                              cmd, ScriptName(free))

\* notify() has not been called
NoNotifs == [spawned |-> <<>>, queued |-> <<>>, cause |-> <<>>]

\* Neither tabExpander.ReadRune nor writeScript has been called, and the
\* calls of notify() are not followed
NoCalls ==
    /\ tabs = NoTabs
    /\ script = NoScript
    /\ notifs = NoNotifs

\* The Editor and the view as main creates them without --pipeline
UiStart == EditorStart(<<>>) /\ ViewStart(0, 0, 1, 1) /\ NoCalls

----------------------------------------------------------------------------
(* main *)

\* Mutant: only the restart flag is consulted
RestartOnFlagOnly(rs, unsafe, cmd, last) == rs

\* Mutant: the unsafe mode is not consulted
RestartOnAnyChange(rs, unsafe, cmd, last) == rs \/ cmd # last

\* The condition of the restart at the top of the main loop
RestartNeeded(rs, unsafe, cmd, last) == rs \/ (unsafe /\ cmd # last)

\* The process is running: main has not returned, no goroutine has panicked
Running == pc # "exit" /\ capPc # "panic"

\* Mutant: the view is never rebound
ViewBufStdin == stdinCapture

\* commandOutput.Buf
ViewBuf == IF view = 0 THEN stdinCapture ELSE out

----------------------------------------------------------------------------
(* The state after the flags are parsed and StartCapturing(stdin) is called *)

\* With the producer's bytes in, and the Buf of stdin being b with its
\* capture task at cpc
StartFrom(size, unsafe, in, b, cpc, cmd, at) ==
    /\ bufsize = size
    /\ unsafeMode = unsafe
    /\ input = in
    /\ inpos = 0
    /\ stdinCapture = b
    /\ capPc = cpc
    /\ capRes = NoRes
    /\ sid = 0
    /\ cancelled = {}
    /\ child = "none"
    /\ waitErr = "nil"
    /\ waitPc = "none"
    /\ rd = NoReader
    /\ pipe = NewPipe
    /\ out = NewBuf(size * MiB)
    /\ outPc = "none"
    /\ outRes = NoRes
    /\ pc = at
    /\ command = cmd
    /\ lastCommand = ""
    /\ restart = FALSE
    /\ current = 0
    /\ view = 0
    /\ glyph = ""
    /\ shown = <<>>
    /\ interrupts = 0

Start(size, unsafe, len, cmd, at) ==
    StartFrom(size, unsafe, Producer(len), NewBuf(size * MiB), "read",
              cmd, at)

----------------------------------------------------------------------------
(* The capture task of stdinCapture *)

\* n, err := r.Read(b.bytes[b.n:]) on os.Stdin (or on the empty reader of
\* --noinput): it returns bytes when the producer has written some, io.EOF
\* with no bytes when the producer has written all and closed its end, an
\* error when the read fails, and 0, nil for a slice of length 0
CaptureRead ==
    /\ Running
    /\ capPc = "read"
    /\ LET space == stdinCapture.cap - stdinCapture.n
           left == Len(input) - inpos
       IN  \E k \in 0..Min(space, left), err \in {"nil", "EOF", "error"} :
            /\ err = "EOF" => (k = 0 /\ left = 0)
            /\ err = "error" => k = 0
            /\ err = "nil" => (k > 0 \/ space = 0)
            /\ stdinCapture' =
                   Store(stdinCapture, SubSeq(input, inpos + 1, inpos + k))
            /\ inpos' = inpos + k
            /\ capRes' = [n |-> k, err |-> err]
            /\ capPc' = "locked"
    /\ UNCHANGED <<input, flagVars, handleVars, procVars, rd, outVars,
                   ctlVars, screenVars, interrupts>>
    /\ UNCHANGED uiVars

\* b.mu.Lock(); for b.status == bufPaused { b.cond.Wait() }
CaptureWait ==
    /\ Running
    /\ capPc = "locked"
    /\ stdinCapture.status = "bufPaused"
    /\ capPc' = "wait"
    /\ UNCHANGED <<input, inpos, stdinCapture, capRes, flagVars, handleVars,
                   procVars, rd, outVars, ctlVars, screenVars, interrupts>>
    /\ UNCHANGED uiVars

\* Mutant: the capture task does not wait while the buffer is paused
CapturePublishPaused ==
    /\ Running
    /\ capPc = "locked"
    /\ stdinCapture' = Publish(stdinCapture, capRes)
    /\ capPc' = CaptureNext(stdinCapture', capRes)
    /\ capRes' = NoRes
    /\ rd' = Wake(rd)
    /\ interrupts' = PostInterrupt(interrupts)
    /\ UNCHANGED <<input, inpos, flagVars, handleVars, procVars, outVars,
                   ctlVars, screenVars>>
    /\ UNCHANGED uiVars

\* b.n += n ... b.cond.Broadcast(); b.mu.Unlock(); go notify(); return/panic
CapturePublish ==
    /\ Running
    /\ capPc = "locked"
    /\ stdinCapture.status # "bufPaused"
    /\ stdinCapture' = Publish(stdinCapture, capRes)
    /\ capPc' = CaptureNext(stdinCapture', capRes)
    /\ capRes' = NoRes
    /\ rd' = Wake(rd)
    /\ interrupts' = PostInterrupt(interrupts)
    /\ UNCHANGED <<input, inpos, flagVars, handleVars, procVars, outVars,
                   ctlVars, screenVars>>
    /\ UNCHANGED uiVars

\* Mutant: the Broadcast of Pause does not reach the capture task
PauseStdinNoWake(pause) ==
    /\ stdinCapture' = Pause(stdinCapture, pause)
    /\ IF PauseBroadcasts(stdinCapture, pause)
       THEN /\ rd' = IF rd.pc = "wait"
                     THEN [rd EXCEPT !.pc = "woken", !.sawPause = pause]
                     ELSE rd
            /\ capPc' = capPc
       ELSE UNCHANGED <<rd, capPc>>

\* stdinCapture.Pause(pause), with its Broadcast
PauseStdin(pause) ==
    /\ stdinCapture' = Pause(stdinCapture, pause)
    /\ IF PauseBroadcasts(stdinCapture, pause)
       THEN /\ rd' = IF rd.pc = "wait"
                     THEN [rd EXCEPT !.pc = "woken", !.sawPause = pause]
                     ELSE rd
            /\ capPc' = IF capPc = "wait" THEN "locked" ELSE capPc
       ELSE UNCHANGED <<rd, capPc>>

----------------------------------------------------------------------------
(* A blocking reader over stdinCapture: the function NewReader(true) returns *)

\* b.mu.Lock(); end := b.n; for blocking && ... { b.cond.Wait(); end = b.n };
\* b.mu.Unlock()
ReaderLock ==
    /\ Running
    /\ rd.pc \in {"idle", "woken"}
    /\ rd' = IF ReaderWaits(stdinCapture, TRUE, rd.i)
             THEN [rd EXCEPT !.pc = "wait"]
             ELSE [rd EXCEPT !.pc = "copy", !.end = stdinCapture.n]
    /\ UNCHANGED <<stdinVars, flagVars, handleVars, procVars, outVars,
                   ctlVars, screenVars, interrupts>>
    /\ UNCHANGED uiVars

\* n = copy(p, b.bytes[i:end]); i += n; return n, nil or 0, io.EOF
ReaderCopy ==
    /\ Running
    /\ rd.pc = "copy"
    /\ \E lenp \in 1..MaxRead :
        LET data == ReadChunk(stdinCapture, rd.i, rd.end, lenp)
            k == Len(data)
        IN  rd' = [pc |-> "ret", i |-> rd.i + k, end |-> rd.i + k,
                   k |-> k, sawPause |-> FALSE, got |-> rd.got \o data]
    /\ UNCHANGED <<stdinVars, flagVars, handleVars, procVars, outVars,
                   ctlVars, screenVars, interrupts>>
    /\ UNCHANGED uiVars

----------------------------------------------------------------------------
(* BufSpec: a Buf, its capture task, and the calls of its methods *)

BufInit ==
    \E size \in BufSizes, len \in 0..MaxInput :
        (Start(size, FALSE, len, "", "poll") /\ UiStart)

\* b.Pause(pause), called at any moment by the one task that calls it
CallPause(pause) ==
    /\ Running
    /\ pc = "poll"
    /\ PauseStdin(pause)
    /\ UNCHANGED <<input, inpos, capRes, flagVars, handleVars, procVars,
                   outVars, ctlVars, screenVars, interrupts>>
    /\ UNCHANGED uiVars

\* b.NewReader(true), once the reader before it has seen EOF
OpenReader ==
    /\ Running
    /\ rd.pc \in {"none", "done"}
    /\ rd' = NewReader
    /\ UNCHANGED <<stdinVars, flagVars, handleVars, procVars, outVars,
                   ctlVars, screenVars, interrupts>>
    /\ UNCHANGED uiVars

\* The caller of Read calls it again until it returns io.EOF
ReadAgain ==
    /\ Running
    /\ rd.pc = "ret"
    /\ waitPc = "none"
    /\ rd' = [rd EXCEPT !.pc = IF rd.k > 0 THEN "idle" ELSE "done"]
    /\ UNCHANGED <<stdinVars, flagVars, handleVars, procVars, outVars,
                   ctlVars, screenVars, interrupts>>
    /\ UNCHANGED uiVars

\* b.DrawStatus, and b.NewReader(false) read to its EOF in slices of lenp
DrawScreen ==
    /\ glyph' = DrawStatus(stdinCapture)
    /\ \E lenp \in 1..MaxRead : shown' = ReadAll(ViewBuf, 0, lenp)

CallDraw ==
    /\ Running
    /\ DrawScreen
    /\ UNCHANGED <<stdinVars, flagVars, handleVars, procVars, rd, outVars,
                   ctlVars, interrupts>>
    /\ UNCHANGED uiVars

BufNext ==
    \/ CaptureRead
    \/ CaptureWait
    \/ CapturePublish
    \/ ReaderLock
    \/ ReaderCopy
    \/ ReadAgain
    \/ OpenReader
    \/ CallPause(TRUE)
    \/ CallPause(FALSE)
    \/ CallDraw

BufSpec == BufInit /\ [][BufNext]_vars

\* The capture task and the reader run when they can, and the source hands
\* over what the producer has written; the callers of Pause, NewReader and
\* DrawStatus owe nothing
BufFairness ==
    /\ WF_vars(CaptureRead)
    /\ WF_vars(CaptureWait)
    /\ WF_vars(CapturePublish)
    /\ WF_vars(ReaderLock)
    /\ WF_vars(ReaderCopy)
    /\ WF_vars(ReadAgain)

FairBufSpec == BufSpec /\ BufFairness

----------------------------------------------------------------------------
(* The goroutines of a Subprocess *)

\* The goroutine of exec.Cmd that copies cmd.Stdin into the child's stdin:
\* it ends when Read returns io.EOF, and when the write fails because the
\* child is gone
CopierNext ==
    /\ Running
    /\ rd.pc = "ret"
    /\ waitPc # "none"
    /\ rd' = [rd EXCEPT !.pc = IF rd.k > 0 /\ child = "running" THEN "idle"
                               ELSE "done"]
    /\ UNCHANGED <<stdinVars, flagVars, handleVars, procVars, outVars,
                   ctlVars, screenVars, interrupts>>
    /\ UNCHANGED uiVars

\* The child writes a byte to its stdout or stderr; the pipes between the
\* child and the capture task hold at most MaxRead bytes
ChildEmit ==
    /\ Running
    /\ child = "running"
    /\ Len(pipe.pend) < MaxRead
    /\ pipe' = [pipe EXCEPT !.pend = Append(pipe.pend, "o")]
    /\ UNCHANGED <<stdinVars, flagVars, handleVars, child, waitErr, waitPc,
                   rd, outVars, ctlVars, screenVars, interrupts>>
    /\ UNCHANGED uiVars

\* The child exits on its own
ChildExit ==
    /\ Running
    /\ child = "running"
    /\ child' = "dead"
    /\ waitErr' \in {"nil"} \cup WaitErrors
    /\ UNCHANGED <<stdinVars, flagVars, handleVars, waitPc, pipe, rd, outVars,
                   ctlVars, screenVars, interrupts>>
    /\ UNCHANGED uiVars

\* exec.CommandContext kills the child once the context is cancelled
ChildKilled ==
    /\ Running
    /\ child = "running"
    /\ sid \in cancelled
    /\ child' = "dead"
    /\ waitErr' = "signal: killed"
    /\ UNCHANGED <<stdinVars, flagVars, handleVars, waitPc, pipe, rd, outVars,
                   ctlVars, screenVars, interrupts>>
    /\ UNCHANGED uiVars

\* err = cmd.Wait() returns: the child is gone, and the goroutine that copies
\* cmd.Stdin and the one that copies the child's output into w have ended;
\* then fmt.Fprintf(w, "up: %s", err) for an error, else w.Close()
WaitReturn ==
    /\ Running
    /\ waitPc = "wait"
    /\ child = "dead"
    /\ rd.pc = "done"
    /\ pipe.pend = <<>>
    /\ IF waitErr # "nil"
       THEN /\ pipe' = [pipe EXCEPT !.pend = ErrText(waitErr)]
            /\ waitPc' = "fprintf"
       ELSE /\ pipe' = [pipe EXCEPT !.closed = TRUE]
            /\ waitPc' = "closed"
    /\ UNCHANGED <<stdinVars, flagVars, handleVars, child, waitErr, rd,
                   outVars, ctlVars, screenVars, interrupts>>
    /\ UNCHANGED uiVars

\* Fprintf returns when all it wrote has been read: w.Close()
WaitClose ==
    /\ Running
    /\ waitPc = "fprintf"
    /\ pipe.pend = <<>>
    /\ pipe' = [pipe EXCEPT !.closed = TRUE]
    /\ waitPc' = "closed"
    /\ UNCHANGED <<stdinVars, flagVars, handleVars, child, waitErr, rd,
                   outVars, ctlVars, screenVars, interrupts>>
    /\ UNCHANGED uiVars

\* The capture task of Subprocess.Buf: n, err := r.Read(b.bytes[b.n:]) on
\* the pipe, which hands over what is written to it, as much as fits, and
\* reports io.EOF once the writer is closed
OutRead ==
    /\ Running
    /\ outPc = "read"
    /\ LET space == out.cap - out.n
       IN  \/ /\ pipe.pend # <<>>
              /\ \E k \in 0..Min(space, Len(pipe.pend)) :
                  /\ k > 0 \/ space = 0
                  /\ out' = Store(out, SubSeq(pipe.pend, 1, k))
                  /\ pipe' = [pipe EXCEPT
                        !.pend = SubSeq(pipe.pend, k + 1, Len(pipe.pend))]
                  /\ outRes' = [n |-> k, err |-> "nil"]
           \/ /\ pipe.pend = <<>>
              /\ pipe.closed
              /\ out' = out
              /\ pipe' = pipe
              /\ outRes' = [n |-> 0, err |-> "EOF"]
    /\ outPc' = "locked"
    /\ UNCHANGED <<stdinVars, flagVars, handleVars, child, waitErr, waitPc,
                   rd, ctlVars, screenVars, interrupts>>
    /\ UNCHANGED uiVars

\* The locked part of that capture task; no one pauses this buffer, and no
\* reader of it blocks
OutPublish ==
    /\ Running
    /\ outPc = "locked"
    /\ out.status # "bufPaused"
    /\ out' = Publish(out, outRes)
    /\ outPc' = CaptureNext(out', outRes)
    /\ outRes' = NoRes
    /\ interrupts' = PostInterrupt(interrupts)
    /\ UNCHANGED <<stdinVars, flagVars, handleVars, procVars, rd, ctlVars,
                   screenVars>>
    /\ UNCHANGED uiVars

----------------------------------------------------------------------------
(* StartSubprocess *)

\* NewBuf(len(stdin.bytes)).StartCapturing(r, notify) on a new pipe
StartCommon ==
    /\ sid < MaxProcs
    /\ sid' = sid + 1
    /\ out' = NewBuf(stdinCapture.cap)
    /\ outPc' = "read"
    /\ outRes' = NoRes
    /\ waitErr' = "nil"

\* cmd.Start() succeeds: the child runs, cmd.Stdin is being copied, and a
\* goroutine waits in cmd.Wait()
StartOk ==
    /\ StartCommon
    /\ child' = "running"
    /\ rd' = NewReader
    /\ pipe' = NewPipe
    /\ waitPc' = "wait"

\* cmd.Start() fails: fmt.Fprintf(w, "up: %s", err) by the caller itself
StartFails ==
    /\ StartCommon
    /\ child' = "none"
    /\ rd' = NoReader
    /\ \E err \in ExecErrors : pipe' = [NewPipe EXCEPT !.pend = ErrText(err)]
    /\ waitPc' = "none"

\* That Fprintf returns when all it wrote has been read: w.Close(); return p
FprintfReturns ==
    /\ pc = "fprintf"
    /\ pipe.pend = <<>>
    /\ pipe' = [pipe EXCEPT !.closed = TRUE]

----------------------------------------------------------------------------
(* SubSpec: a Subprocess and the calls of StartSubprocess, Kill and Pause *)

SubInit ==
    \E size \in BufSizes, len \in 0..MaxInput :
        (Start(size, FALSE, len, "cat", "poll") /\ UiStart)

CallStart ==
    /\ Running
    /\ pc = "poll"
    /\ sid = 0
    /\ StartOk
    /\ current' = sid'
    /\ UNCHANGED <<stdinVars, flagVars, cancelled, pc, command, lastCommand,
                   restart, view, screenVars, interrupts>>
    /\ UNCHANGED uiVars

CallStartFails ==
    /\ Running
    /\ pc = "poll"
    /\ sid = 0
    /\ StartFails
    /\ pc' = "fprintf"
    /\ UNCHANGED <<stdinVars, flagVars, cancelled, command, lastCommand,
                   restart, current, view, screenVars, interrupts>>
    /\ UNCHANGED uiVars

CallStartReturns ==
    /\ Running
    /\ FprintfReturns
    /\ current' = sid
    /\ pc' = "poll"
    /\ UNCHANGED <<stdinVars, flagVars, handleVars, child, waitErr, waitPc,
                   rd, outVars, command, lastCommand, restart, view,
                   screenVars, interrupts>>
    /\ UNCHANGED uiVars

\* commandSubprocess.Kill()
CallKill ==
    /\ Running
    /\ pc = "poll"
    /\ current # 0
    /\ cancelled' = Kill(current, cancelled)
    /\ cancelled' # cancelled
    /\ UNCHANGED <<stdinVars, flagVars, sid, procVars, rd, outVars, ctlVars,
                   screenVars, interrupts>>
    /\ UNCHANGED uiVars

SubNext ==
    \/ CaptureRead
    \/ CaptureWait
    \/ CapturePublish
    \/ ReaderLock
    \/ ReaderCopy
    \/ CopierNext
    \/ ChildEmit
    \/ ChildExit
    \/ ChildKilled
    \/ WaitReturn
    \/ WaitClose
    \/ OutRead
    \/ OutPublish
    \/ CallStart
    \/ CallStartFails
    \/ CallStartReturns
    \/ CallKill
    \/ CallPause(TRUE)
    \/ CallPause(FALSE)

SubSpec == SubInit /\ [][SubNext]_vars

\* The goroutines of the program run when they can; the producer of stdin,
\* the child and the user owe nothing
SubFairness ==
    /\ WF_vars(CaptureWait)
    /\ WF_vars(CapturePublish)
    /\ WF_vars(ReaderLock)
    /\ WF_vars(ReaderCopy)
    /\ WF_vars(CopierNext)
    /\ WF_vars(ChildKilled)
    /\ WF_vars(WaitReturn)
    /\ WF_vars(WaitClose)
    /\ WF_vars(OutRead)
    /\ WF_vars(OutPublish)
    /\ WF_vars(CallStartReturns)

FairSubSpec == SubSpec /\ SubFairness

----------------------------------------------------------------------------
(* Spec: main.  The top of the loop *)

Init ==
    \E size \in BufSizes, unsafe \in BOOLEAN, len \in 0..MaxInput,
       cmd \in Commands :
        (Start(size, unsafe, len, cmd, "loop") /\ UiStart)

\* The condition does not hold: straight to the redraw
NoRestart ==
    /\ Running
    /\ pc = "loop"
    /\ ~RestartNeeded(restart, unsafeMode, command, lastCommand)
    /\ pc' = "draw"
    /\ UNCHANGED <<stdinVars, flagVars, handleVars, procVars, rd, outVars,
                   command, lastCommand, restart, current, view, screenVars,
                   interrupts>>
    /\ UNCHANGED uiVars

\* Kill, and with an empty command back to the raw input
RestartEmpty ==
    /\ Running
    /\ pc = "loop"
    /\ RestartNeeded(restart, unsafeMode, command, lastCommand)
    /\ command = ""
    /\ cancelled' = Kill(current, cancelled)
    /\ current' = 0
    /\ view' = 0
    /\ restart' = FALSE
    /\ lastCommand' = command
    /\ pc' = "draw"
    /\ UNCHANGED <<stdinVars, flagVars, sid, procVars, rd, outVars, command,
                   screenVars, interrupts>>
    /\ UNCHANGED uiVars

\* Kill, and StartSubprocess where cmd.Start() succeeds
RestartStart ==
    /\ Running
    /\ pc = "loop"
    /\ RestartNeeded(restart, unsafeMode, command, lastCommand)
    /\ command # ""
    /\ cancelled' = Kill(current, cancelled)
    /\ StartOk
    /\ current' = sid'
    /\ view' = sid'
    /\ restart' = FALSE
    /\ lastCommand' = command
    /\ pc' = "draw"
    /\ UNCHANGED <<stdinVars, flagVars, command, screenVars, interrupts>>
    /\ UNCHANGED uiVars

\* Kill, and StartSubprocess where cmd.Start() fails and main writes the
\* error into the pipe
RestartStartFails ==
    /\ Running
    /\ pc = "loop"
    /\ RestartNeeded(restart, unsafeMode, command, lastCommand)
    /\ command # ""
    /\ cancelled' = Kill(current, cancelled)
    /\ StartFails
    /\ pc' = "fprintf"
    /\ UNCHANGED <<stdinVars, flagVars, command, lastCommand, restart,
                   current, view, screenVars, interrupts>>
    /\ UNCHANGED uiVars

\* StartSubprocess returns, and the assignments of main that follow
StartFailsReturn ==
    /\ Running
    /\ FprintfReturns
    /\ current' = sid
    /\ view' = sid
    /\ restart' = FALSE
    /\ lastCommand' = command
    /\ pc' = "draw"
    /\ UNCHANGED <<stdinVars, flagVars, handleVars, child, waitErr, waitPc,
                   rd, outVars, command, screenVars, interrupts>>
    /\ UNCHANGED uiVars

\* stdinCapture.DrawStatus, commandEditor.DrawTo, commandOutput.DrawTo,
\* tui.Show()
Redraw ==
    /\ Running
    /\ pc = "draw"
    /\ DrawScreen
    /\ pc' = "poll"
    /\ UNCHANGED <<stdinVars, flagVars, handleVars, procVars, rd, outVars,
                   command, lastCommand, restart, current, view, interrupts>>
    /\ UNCHANGED uiVars

----------------------------------------------------------------------------
(* main: tui.PollEvent() and the dispatch of the event.  What the redraw   *)
(* has read is dead once the event is there.                               *)

\* A key the editor handles; the command may change
EditorKey ==
    /\ Running
    /\ pc = "poll"
    /\ command' \in Commands
    /\ shown' = <<>>
    /\ pc' = "loop"
    /\ UNCHANGED <<stdinVars, flagVars, handleVars, procVars, rd, outVars,
                   lastCommand, restart, current, view, glyph, interrupts>>
    /\ UNCHANGED uiVars

\* A scroll key of the view, a key bound to nothing, a resize
OtherEvent ==
    /\ Running
    /\ pc = "poll"
    /\ shown' = <<>>
    /\ pc' = "loop"
    /\ UNCHANGED <<stdinVars, flagVars, handleVars, procVars, rd, outVars,
                   command, lastCommand, restart, current, view, glyph,
                   interrupts>>
    /\ UNCHANGED uiVars

\* An EventInterrupt posted by triggerRefresh
PollInterrupt ==
    /\ Running
    /\ pc = "poll"
    /\ interrupts > 0
    /\ interrupts' = interrupts - 1
    /\ shown' = <<>>
    /\ pc' = "loop"
    /\ UNCHANGED <<stdinVars, flagVars, handleVars, procVars, rd, outVars,
                   command, lastCommand, restart, current, view, glyph>>
    /\ UNCHANGED uiVars

Enter ==
    /\ Running
    /\ pc = "poll"
    /\ restart' = TRUE
    /\ shown' = <<>>
    /\ pc' = "loop"
    /\ UNCHANGED <<stdinVars, flagVars, handleVars, procVars, rd, outVars,
                   command, lastCommand, current, view, glyph, interrupts>>
    /\ UNCHANGED uiVars

\* stdinCapture.Pause(true); triggerRefresh(tui)
CtrlS ==
    /\ Running
    /\ pc = "poll"
    /\ PauseStdin(TRUE)
    /\ interrupts' = PostInterrupt(interrupts)
    /\ shown' = <<>>
    /\ pc' = "loop"
    /\ UNCHANGED <<input, inpos, capRes, flagVars, handleVars, procVars,
                   outVars, command, lastCommand, restart, current, view,
                   glyph>>
    /\ UNCHANGED uiVars

\* stdinCapture.Pause(false); restart = true
CtrlQ ==
    /\ Running
    /\ pc = "poll"
    /\ PauseStdin(FALSE)
    /\ restart' = TRUE
    /\ shown' = <<>>
    /\ pc' = "loop"
    /\ UNCHANGED <<input, inpos, capRes, flagVars, handleVars, procVars,
                   outVars, command, lastCommand, current, view, glyph,
                   interrupts>>
    /\ UNCHANGED uiVars

\* Ctrl-C, Ctrl-D, Ctrl-X: tui.Fini() and return
Quit ==
    /\ Running
    /\ pc = "poll"
    /\ shown' = <<>>
    /\ pc' = "exit"
    /\ UNCHANGED <<stdinVars, flagVars, handleVars, procVars, rd, outVars,
                   command, lastCommand, restart, current, view, glyph,
                   interrupts>>
    /\ UNCHANGED uiVars

Next ==
    \/ NoRestart
    \/ RestartEmpty
    \/ RestartStart
    \/ RestartStartFails
    \/ StartFailsReturn
    \/ Redraw
    \/ EditorKey
    \/ OtherEvent
    \/ PollInterrupt
    \/ Enter
    \/ CtrlS
    \/ CtrlQ
    \/ Quit
    \/ CaptureRead
    \/ CaptureWait
    \/ CapturePublish
    \/ OutRead
    \/ OutPublish

Spec == Init /\ [][Next]_vars

----------------------------------------------------------------------------
(* EditorSpec: an Editor under any calls of its methods and any keys *)

\* NewEditor("| ", *initialCmd); nothing else of the program runs
EditorInit ==
    /\ Start(0, FALSE, 0, "", "poll")
    /\ \E v \in SeqsOf(Runes, 0, MaxInsert) : EditorStart(v)
    /\ ViewStart(0, 0, 1, 1)
    /\ NoCalls

\* The insert that is being undone, after a call that is not delete(-1)
UndoAfter(name, e, ch) ==
    IF name \in {"insert", "yank"}
    THEN [value |-> e.value, cursor |-> e.cursor, of |-> Len(ch),
          left |-> Len(ch)]
    ELSE IF name = "backspace" /\ edUndo.left > 0
    THEN [edUndo EXCEPT !.left = edUndo.left - 1]
    ELSE NoUndo

\* A call on the Editor that gives e2
EditorCall(name, ch, e2) ==
    /\ Len(e2.value) <= MaxValue
    /\ editor' = e2
    /\ edOp' = [name |-> name, arg |-> ch]
    /\ edUndo' = UndoAfter(name, editor, ch)
    /\ UNCHANGED <<coreVars, viewVars, callVars>>

\* e.insert(ch...): a typed rune, or the runes a caller passes
CallInsert ==
    \E ch \in SeqsOf(Runes, 1, MaxInsert) :
        EditorCall("insert", ch, Insert(editor, ch))

\* Ctrl-Y: e.insert(e.killspace...)
Yank == EditorCall("yank", editor.killspace, Insert(editor, editor.killspace))

\* Backspace: e.delete(-1)
BackspaceKey == EditorCall("backspace", <<>>, Delete(editor, -1))

\* Delete: e.delete(0)
DeleteKey == EditorCall("delete", <<>>, Delete(editor, 0))

\* Left, Right, Ctrl-A, Ctrl-E
MoveKey(k) == EditorCall(k, <<>>, MoveCursor(editor, k))

\* Ctrl-K: e.kill()
KillKey == EditorCall("kill", <<>>, EditorKill(editor))

\* Ctrl-W: e.unixWordRubout()
RuboutKey == EditorCall("rubout", <<>>, UnixWordRubout(editor))

\* A key that HandleKey does not handle: it returns false
UnhandledKey == EditorCall("other", <<>>, editor)

EditorNext ==
    \/ CallInsert
    \/ Yank
    \/ BackspaceKey
    \/ DeleteKey
    \/ MoveKey("left")
    \/ MoveKey("right")
    \/ MoveKey("home")
    \/ MoveKey("end")
    \/ KillKey
    \/ RuboutKey
    \/ UnhandledKey

EditorSpec == EditorInit /\ [][EditorNext]_vars

----------------------------------------------------------------------------
(* DrawSpec: a BufView over a Buf that holds its bytes, under calls of     *)
(* DrawTo                                                                  *)

\* A Buf with bytes and n set, as a capture task leaves it at io.EOF
BufOf(data) ==
    [NewBuf(MiB) EXCEPT !.bytes = data, !.n = Len(data), !.status = "bufEOF"]

DrawInit ==
    \E data \in SeqsOf(Bytes, 0, MiB), x \in 0..MaxX, y \in 0..1,
       W \in 1..MaxW, H \in 1..MaxH :
        /\ StartFrom(1, FALSE, data, BufOf(data), "done", "", "poll")
        /\ EditorStart(<<>>)
        /\ ViewStart(x, y, W, H)
        /\ NoCalls

\* v.DrawTo(region)
CallDrawTo ==
    /\ draws < MaxDraws
    /\ screen' = DrawTo(ViewBuf, viewX, viewY, region.W, region.H, screen)
    /\ viewY' = YAfterDraw(viewY)
    /\ draws' = draws + 1
    /\ setcells' = SetCells(ViewBuf, viewX, viewY, region.W, region.H)
    /\ UNCHANGED <<coreVars, editorVars, viewX, region, vOp, callVars>>

DrawNext == CallDrawTo

DrawSpec == DrawInit /\ [][DrawNext]_vars

----------------------------------------------------------------------------
(* TabDrawSpec: a BufView scrolled to the first tab stop, over a Buf that  *)
(* holds one line, under calls of DrawTo                                   *)

\* The bytes of a line
LineBytes == Bytes \ {"\n"}

TabDrawInit ==
    \E data \in SeqsOf(LineBytes, 0, MiB),
       x \in (scrollX - MaxX)..scrollX, W \in 1..MaxW :
        /\ StartFrom(1, FALSE, data, BufOf(data), "done", "", "poll")
        /\ EditorStart(<<>>)
        /\ ViewStart(x, 0, W, 1)
        /\ NoCalls

TabDrawNext == CallDrawTo

TabDrawSpec == TabDrawInit /\ [][TabDrawNext]_vars

----------------------------------------------------------------------------
(* KeySpec: a BufView over a Buf that holds its lines, under calls of      *)
(* HandleKey                                                               *)

\* The lines of a Buf: letters and newlines
Texts == SeqsOf({"a", "\n"}, 0, MiB)

KeyInit ==
    \E data \in Texts, H \in 1..MaxH :
        /\ StartFrom(1, FALSE, data, BufOf(data), "done", "", "poll")
        /\ EditorStart(<<>>)
        /\ ViewStart(0, 0, MaxW, H)
        /\ NoCalls

\* v.HandleKey(ev, scrollY) for the key k; X is followed up to
\* MaxX * scrollX
HandleViewKey(k, page) ==
    LET r == ViewHandleKey(ViewBuf, viewX, viewY, k, page)
    IN  /\ r.X <= MaxX * scrollX
        /\ viewX' = r.X
        /\ viewY' = r.Y
        /\ draws' = 0
        /\ UNCHANGED <<region, screen, setcells>>

\* v.HandleKey(ev, scrollY), the page being as high as the Region
CallHandleKey ==
    \E k \in ViewKeys \cup {"other"} :
        /\ HandleViewKey(k, region.H)
        /\ vOp' = [key |-> k, scrollY |-> region.H,
                   handled |-> ViewHandleKey(ViewBuf, viewX, viewY, k,
                                             region.H).ok]
        /\ UNCHANGED <<coreVars, editorVars, callVars>>

KeyNext == CallHandleKey

KeySpec == KeyInit /\ [][KeyNext]_vars

----------------------------------------------------------------------------
(* ViewSpec: the loop of main with the keys of the view, the Bufs growing  *)
(* and the restarts                                                        *)

ViewInit ==
    \E in \in SeqsOf({"a", "\n"}, MiB, MiB) :
        /\ StartFrom(1, FALSE, in, NewBuf(MiB), "read", "", "loop")
        /\ EditorStart(<<>>)
        /\ ViewStart(0, 0, MaxW, MaxH)
        /\ NoCalls

\* commandOutput.HandleKey(ev, h-1) returns true: continue
ViewKey ==
    /\ Running
    /\ pc = "poll"
    /\ \E k \in ViewKeys : HandleViewKey(k, region.H)
    /\ shown' = <<>>
    /\ pc' = "loop"
    /\ UNCHANGED <<stdinVars, flagVars, handleVars, procVars, rd, outVars,
                   command, lastCommand, restart, current, view, glyph,
                   interrupts, editorVars, vOp, callVars>>

ViewNext ==
    \/ NoRestart
    \/ RestartEmpty
    \/ RestartStart
    \/ RestartStartFails
    \/ StartFailsReturn
    \/ Redraw
    \/ EditorKey
    \/ Enter
    \/ ViewKey
    \/ CaptureRead
    \/ CapturePublish
    \/ OutRead
    \/ OutPublish

ViewSpec == ViewInit /\ [][ViewNext]_vars

----------------------------------------------------------------------------
(* TabSpec: a tabExpander under calls of ReadRune until io.EOF *)

\* The runes its reader returns: a letter, a wide rune, the tab, the
\* newline and the carriage return
TabRunes == {"a", "W", "\t", "\n", "\r"}

\* tabExpander{r: bufr}, the reader holding some letters and then any runes
TabInit ==
    \E lead \in 0..MaxLead, tail \in SeqsOf(TabRunes, 0, MaxTail) :
        /\ Start(0, FALSE, 0, "", "poll")
        /\ EditorStart(<<>>)
        /\ ViewStart(0, 0, 1, 1)
        /\ tabs = NewTabs([i \in 1..lead |-> "a"] \o tail)
        /\ script = NoScript
        /\ notifs = NoNotifs

\* t.ReadRune() returns a rune
CallReadRune ==
    /\ ~AtEOF(tabs)
    /\ tabs' = ReadRune(tabs)
    /\ UNCHANGED <<coreVars, editorVars, viewVars, script, notifs>>

TabNext == CallReadRune

TabSpec == TabInit /\ [][TabNext]_vars

----------------------------------------------------------------------------
(* ScriptSpec: main at tui.PollEvent(), Ctrl-X and what writeScript does *)

ScriptInit ==
    \E cmd \in Commands, output \in OutputScripts, shell \in Shells,
       exist \in SUBSET (1..MaxScripts) :
        /\ Start(0, FALSE, 0, cmd, "poll")
        /\ EditorStart(<<>>)
        /\ ViewStart(0, 0, 1, 1)
        /\ tabs = NoTabs
        /\ script = NotWritten(output, shell, exist)
        /\ notifs = NoNotifs

\* Ctrl-X: tui.Fini(); writeScript(shell, commandEditor.String(), tui);
\* return
CtrlX ==
    /\ Running
    /\ pc = "poll"
    /\ \E fail \in Failures : script' = WriteScript(script, command, fail)
    /\ pc' = "exit"
    /\ UNCHANGED <<stdinVars, flagVars, handleVars, procVars, rd, outVars,
                   command, lastCommand, restart, current, view, screenVars,
                   interrupts, editorVars, viewVars, tabs, notifs>>

ScriptNext == CtrlX

ScriptSpec == ScriptInit /\ [][ScriptNext]_vars

----------------------------------------------------------------------------
(* NotifySpec: the capture task of stdin with the locked part of its step  *)
(* and its go notify() as two steps, the goroutines that run notify, and   *)
(* main polling their events and redrawing                                 *)

NotifyInit ==
    \E size \in BufSizes, len \in 0..MaxInput :
        (Start(size, FALSE, len, "", "loop") /\ UiStart)

\* b.mu.Lock() ... b.n += n ... b.cond.Broadcast(); b.mu.Unlock()
NotifyLocked ==
    /\ Running
    /\ capPc = "locked"
    /\ stdinCapture.status # "bufPaused"
    /\ stdinCapture' = Publish(stdinCapture, capRes)
    /\ capPc' = "go"
    /\ rd' = Wake(rd)
    /\ UNCHANGED <<input, inpos, capRes, flagVars, handleVars, procVars,
                   outVars, ctlVars, screenVars, interrupts>>
    /\ UNCHANGED uiVars

\* go notify(), then return, panic(err) or the next r.Read
NotifyGo ==
    /\ Running
    /\ capPc = "go"
    /\ notifs' = [notifs EXCEPT !.spawned =
                    Append(@, [n |-> inpos, eof |-> capRes.err = "EOF"])]
    /\ capPc' = CaptureNext(stdinCapture, capRes)
    /\ capRes' = NoRes
    /\ UNCHANGED <<input, inpos, stdinCapture, flagVars, handleVars,
                   procVars, rd, outVars, ctlVars, screenVars, interrupts,
                   editorVars, viewVars, tabs, script>>

\* One of the goroutines started by go notify() runs: triggerRefresh(tui)
NotifyRun ==
    /\ Running
    /\ \E i \in 1..Len(notifs.spawned) :
        /\ interrupts' = PostInterrupt(interrupts)
        /\ notifs' = [notifs EXCEPT
                !.spawned = SubSeq(@, 1, i - 1) \o SubSeq(@, i + 1, Len(@)),
                !.queued = IF interrupts' > interrupts
                           THEN Append(@, notifs.spawned[i])
                           ELSE @]
    /\ UNCHANGED <<stdinVars, flagVars, handleVars, procVars, rd, outVars,
                   ctlVars, screenVars, editorVars, viewVars, tabs, script>>

\* tui.PollEvent() returns the EventInterrupt posted first
NotifyPoll ==
    /\ Running
    /\ pc = "poll"
    /\ interrupts > 0
    /\ notifs.queued # <<>>
    /\ interrupts' = interrupts - 1
    /\ notifs' = [notifs EXCEPT !.queued = Tail(@),
                                !.cause = <<Head(notifs.queued)>>]
    /\ shown' = <<>>
    /\ pc' = "loop"
    /\ UNCHANGED <<stdinVars, flagVars, handleVars, procVars, rd, outVars,
                   command, lastCommand, restart, current, view, glyph,
                   editorVars, viewVars, tabs, script>>

NotifyNext ==
    \/ CaptureRead
    \/ CaptureWait
    \/ NotifyLocked
    \/ NotifyGo
    \/ NotifyRun
    \/ NotifyPoll
    \/ NoRestart
    \/ Redraw
    \/ CallPause(TRUE)
    \/ CallPause(FALSE)

NotifySpec == NotifyInit /\ [][NotifyNext]_vars

----------------------------------------------------------------------------
(* Properties of Buf, checked under BufSpec *)

\* C1: in every state 0 <= n <= capacity; no step decreases n; and once
\* status is EOF no step changes n or status.
C1_CaptureBufInvariant ==
    [][ /\ stdinCapture.n \in 0..stdinCapture.cap
        /\ stdinCapture'.n \in 0..stdinCapture'.cap
        /\ stdinCapture'.cap = stdinCapture.cap
        /\ stdinCapture'.n >= stdinCapture.n
        /\ stdinCapture.status = "bufEOF" =>
             /\ stdinCapture'.n = stdinCapture.n
             /\ stdinCapture'.status = "bufEOF" ]_vars

\* The source has reported EOF after some bytes, in a run with readers
C1_Witness ==
    /\ stdinCapture.status = "bufEOF"
    /\ stdinCapture.n > 1
    /\ capPc = "done"
    /\ rd.pc = "done"

\* C2: when the producer's bytes fit the capacity and the capture task has
\* finished, a snapshot reader opened at offset 0 and read to its EOF returns
\* exactly the producer's bytes, whatever the reads of the capture task and
\* the slices of the reader were (and whether or not Pause was called).
C2_SnapshotReturnsInput ==
    [][ (CallDraw /\ capPc = "done" /\ Len(input) <= stdinCapture.cap)
            => shown' = input ]_vars

\* A snapshot of a finished capture of three bytes
C2_Witness ==
    /\ capPc = "done"
    /\ Len(input) = stdinCapture.cap
    /\ Len(input) > 2
    /\ shown = input

\* What C5 and its amended form share: Pause(true) leaves no blocking reader
\* asleep; a Read that takes the lock while the buffer is paused does not
\* wait; and a Read that has unread bytes returns at least one of them.
PauseSeenAsEOF ==
    /\ stdinCapture'.status = "bufPaused" => rd'.pc # "wait"
    /\ (rd.pc \in {"idle", "woken"} /\ rd' # rd
            /\ stdinCapture.status = "bufPaused")
         => (rd'.pc = "copy" /\ rd'.end = stdinCapture.n)
    /\ (rd.pc = "copy" /\ rd'.pc = "ret" /\ rd.i < rd.end)
         => (rd'.k >= 1 /\ rd'.i = rd.i + rd'.k)
    /\ (rd.pc = "copy" /\ rd'.pc = "ret" /\ rd.i = rd.end) => rd'.k = 0

C6_NoEOFWhileReading ==
    [][ /\ (rd.pc \in {"idle", "woken"} /\ rd' # rd
                /\ stdinCapture.status = "bufReading"
                /\ stdinCapture.n < stdinCapture.cap)
             => \/ rd'.pc = "wait"
                \/ rd'.pc = "copy" /\ rd'.end > rd.i
        /\ (rd.pc \in {"idle", "woken"} /\ rd'.pc = "copy"
                /\ rd'.end = rd.i)
             => /\ rd.i = stdinCapture.n
                /\ \/ stdinCapture.status \in {"bufEOF", "bufPaused"}
                   \/ stdinCapture.n = stdinCapture.cap
        /\ (rd.pc = "copy" /\ rd'.pc = "ret")
             => (rd'.k = 0 <=> rd.end = rd.i) ]_vars

\* A reader that has consumed the bytes there are and waits for more
C6_Witness ==
    /\ rd.pc = "wait"
    /\ rd.i = stdinCapture.n
    /\ rd.i > 0
    /\ stdinCapture.status = "bufReading"

\* C7: Pause(true) turns Reading into Paused, Pause(false) turns Paused into
\* Reading, every other call leaves status as it is, and no call changes n,
\* the bytes or the capacity.
C7_PauseTransitions ==
    [][ \A p \in BOOLEAN :
          CallPause(p) =>
            /\ stdinCapture'.status =
                 IF p /\ stdinCapture.status = "bufReading" THEN "bufPaused"
                 ELSE IF ~p /\ stdinCapture.status = "bufPaused"
                      THEN "bufReading"
                 ELSE stdinCapture.status
            /\ stdinCapture'.n = stdinCapture.n
            /\ stdinCapture'.bytes = stdinCapture.bytes
            /\ stdinCapture'.cap = stdinCapture.cap ]_vars

\* A buffer paused while it holds bytes
C7_Witness ==
    /\ stdinCapture.status = "bufPaused"
    /\ stdinCapture.n > 0
    /\ capPc = "wait"

\* What C8 and its amended form share
GlyphOfStatus ==
    /\ CallDraw =>
         /\ glyph' = "#" <=> stdinCapture.status = "bufPaused"
         /\ glyph' = " " <=> stdinCapture.status = "bufEOF"
         /\ (stdinCapture.status = "bufReading"
                /\ stdinCapture.n < stdinCapture.cap) => glyph' = "~"
         /\ glyph' = "~" => capPc # "done"
    /\ glyph = "+" => inpos' = inpos

\* C8 as stated: the glyph is '+' when the capacity has been reached (here:
\* when the capture task has filled a buffer of positive capacity).
C8_Original ==
    [][ /\ GlyphOfStatus
        /\ CallDraw =>
             ((stdinCapture.n = stdinCapture.cap /\ stdinCapture.cap > 0
                  /\ capPc = "done") => glyph' = "+") ]_vars

\* C8 (amended): the glyph drawn is '#' exactly when status = Paused, ' '
\* exactly when status = EOF, '+' exactly when status = Reading and
\* n = capacity, and '~' exactly when status = Reading and n < capacity;
\* while '+' is visible the capture task reads no more input, and when '~'
\* is drawn the capture task has not finished.
C8_StatusGlyph ==
    [][ /\ GlyphOfStatus
        /\ CallDraw =>
             /\ glyph' = "+" <=> /\ stdinCapture.status = "bufReading"
                                 /\ stdinCapture.n = stdinCapture.cap
             /\ glyph' = "~" <=> /\ stdinCapture.status = "bufReading"
                                 /\ stdinCapture.n < stdinCapture.cap ]_vars

\* '+' on the screen of a buffer that has been filled
C8_Witness ==
    /\ glyph = "+"
    /\ stdinCapture.n = stdinCapture.cap
    /\ stdinCapture.cap > 0
    /\ capPc = "done"

----------------------------------------------------------------------------
(* Properties of Subprocess, checked under SubSpec and FairSubSpec *)

\* C4: once Kill() has been called on a subprocess whose child is running,
\* the reader behind its cmd.Stdin eventually stops reading, its pipe is
\* eventually closed and its output buffer eventually has status EOF (unless
\* the whole process has been aborted by then).
C4_Original ==
    (sid \in cancelled /\ child = "running")
        ~> \/ /\ rd.pc = "done"
              /\ pipe.closed
              /\ out.status = "bufEOF"
           \/ capPc = "panic"

\* C9: when cmd.Start() has failed, the Fprintf of StartSubprocess can
\* always still be read, so that StartSubprocess returns; the output buffer
\* holds a prefix of "up: <error>"; and when its capture task has finished it
\* holds all of it and has status EOF.
C9_Original ==
    (sid > 0 /\ waitPc = "none") =>
        /\ pc = "fprintf" => outPc # "done"
        /\ \E err \in ExecErrors :
             /\ out.n <= Len(ErrText(err))
             /\ SubSeq(out.bytes, 1, out.n) = SubSeq(ErrText(err), 1, out.n)
             /\ outPc = "done" =>
                  (out.n = Len(ErrText(err)) /\ out.status = "bufEOF")

----------------------------------------------------------------------------
(* Properties of main, checked under Spec *)

\* C3: whenever a subprocess is started, every subprocess started before it
\* has already been cancelled, so at any time at most one started subprocess
\* (the newest) has not been cancelled.
C3_KillBeforeStart ==
    /\ [](\A s \in 1..sid : s \notin cancelled => s = sid)
    /\ [][sid' # sid => \A s \in 1..sid : s \in cancelled']_vars

\* The second subprocess runs uncancelled, the first one has been cancelled
C3_Witness ==
    /\ sid = 2
    /\ current = 2
    /\ 1 \in cancelled
    /\ 2 \notin cancelled
    /\ pc = "poll"

\* C10: a pass through the top of the main loop kills the current subprocess
\* and rebinds the view iff restart is set or (unsafe mode and the command
\* differs from lastCommand); then a subprocess is started iff the command
\* is non-empty, and the view shows its new buffer, else current is nil and
\* the view shows the stdin buffer; afterwards restart is false and
\* lastCommand is the command.  Otherwise current, the view's buffer and
\* lastCommand do not change and nothing is killed or started.
C10_RestartDecision ==
    [][LET need == restart \/ (unsafeMode /\ command # lastCommand)
           done == /\ ~restart'
                   /\ lastCommand' = command
                   /\ command' = command
       IN  /\ (pc = "loop" /\ pc' # "loop") =>
                /\ need =>
                     /\ current # 0 => current \in cancelled'
                     /\ cancelled' \subseteq cancelled \cup {current}
                /\ (need /\ command # "") =>
                     /\ sid' = sid + 1
                     /\ out' = NewBuf(bufsize * MiB)
                     /\ pc' \in {"draw", "fprintf"}
                     /\ pc' = "draw" =>
                          current' = sid' /\ view' = sid' /\ done
                /\ (need /\ command = "") =>
                     /\ sid' = sid
                     /\ current' = 0
                     /\ view' = 0
                     /\ pc' = "draw"
                     /\ done
                /\ ~need =>
                     /\ pc' = "draw"
                     /\ UNCHANGED <<current, view, lastCommand, restart,
                                    sid, cancelled, out>>
           /\ (pc = "fprintf" /\ pc' # "fprintf") =>
                current' = sid /\ view' = sid /\ done /\ pc' = "draw"
           /\ pc \notin {"loop", "fprintf"} =>
                UNCHANGED <<current, view, lastCommand, sid, cancelled>>
    ]_vars

\* A restart with an empty command after a subprocess ran: it has been
\* killed and the view is back on the stdin buffer
C10_Witness ==
    /\ pc = "draw"
    /\ sid = 1
    /\ 1 \in cancelled
    /\ current = 0
    /\ view = 0
    /\ ~restart
    /\ command = ""
    /\ lastCommand = ""

\* C11: without --unsafe-full-throttle the restart flag is raised by Enter
\* and Ctrl-Q only, and nothing is killed, started or rebound unless it is
\* raised, so no editing or scrolling key restarts the command.  With
\* --unsafe-full-throttle a pass through the top of the loop with a changed
\* command kills the current subprocess and starts the new command (or goes
\* back to the raw input), so at every redraw lastCommand is the command.
C11_RestartTriggers ==
    /\ [][(~restart /\ restart') => (Enter \/ CtrlQ)]_vars
    /\ [][(~unsafeMode /\ <<sid, cancelled, current, view>>' #
                          <<sid, cancelled, current, view>>) => restart]_vars
    /\ [](unsafeMode /\ pc = "draw" => lastCommand = command)
    /\ [][(unsafeMode /\ pc = "loop" /\ pc' # "loop"
                      /\ command # lastCommand) =>
            /\ current # 0 => current \in cancelled'
            /\ command # "" => sid' = sid + 1
            /\ command = "" => (current' = 0 /\ view' = 0)]_vars

\* In the unsafe mode the command was changed to wc and is running as the
\* second subprocess
C11_Witness ==
    /\ unsafeMode
    /\ pc = "draw"
    /\ sid = 2
    /\ current = 2
    /\ 1 \in cancelled
    /\ ~restart
    /\ command = "wc"
    /\ lastCommand = "wc"

----------------------------------------------------------------------------
(* Properties of the Editor, checked under EditorSpec *)

\* C12: after every operation of every history of the Editor that starts
\* from NewEditor, 0 <= cursor <= len(value).
C12_CursorInRange ==
    /\ 0 <= editor.cursor
    /\ editor.cursor <= Len(editor.value)

\* A kill that cut the value at the cursor, which is now at its end
C12_Witness ==
    /\ edOp.name = "kill"
    /\ editor.killspace # <<>>
    /\ editor.cursor = Len(editor.value)
    /\ editor.cursor > 0

\* C13: an insert of the runes r followed by len(r) calls of delete(-1)
\* gives back the value and the cursor from before the insert.
C13_InsertThenBackspace ==
    edUndo.left = 0 =>
        /\ editor.value = edUndo.value
        /\ editor.cursor = edUndo.cursor

\* Two runes were put before a value of one rune and deleted again
C13_Witness ==
    /\ edOp.name = "backspace"
    /\ edUndo.of = 2
    /\ edUndo.left = 0
    /\ editor.cursor = 0
    /\ Len(editor.value) = 1

\* C14: insert(r...) with the cursor at c turns the value v into
\* v[0..c) ++ r ++ v[c..] and the cursor into c + len(r), wherever the
\* cursor is and however many runes are given; killspace does not change.
C14_InsertSplices ==
    [][edOp'.name \in {"insert", "yank"} =>
        LET v == editor.value
            c == editor.cursor
            r == edOp'.arg
        IN  /\ Len(editor'.value) = Len(v) + Len(r)
            /\ \A i \in 1..Len(editor'.value) :
                 editor'.value[i] =
                     IF i <= c THEN v[i]
                     ELSE IF i <= c + Len(r) THEN r[i - c]
                     ELSE v[i - Len(r)]
            /\ editor'.cursor = c + Len(r)
            /\ editor'.killspace = editor.killspace]_vars

\* Two runes were inserted before a value of one rune
C14_Witness ==
    /\ edOp.name = "insert"
    /\ Len(edOp.arg) = 2
    /\ Len(editor.value) = 3
    /\ editor.cursor = 2
    /\ SubSeq(editor.value, 1, 2) = edOp.arg

\* C15: unix_word_rubout with the cursor at c > 0 removes value[pos..c),
\* pos being where the scan from c-1 to the left stops (at 0, or at a rune
\* that is no whitespace and follows a whitespace); what is removed
\* replaces killspace, the cursor becomes pos, the rest of the value stays.
\* What is removed is a word followed by the whitespace up to the cursor.
\* With the cursor at 0 nothing changes.
C15_UnixWordRubout ==
    [][edOp'.name = "rubout" =>
        LET v == editor.value
            c == editor.cursor
            goesOn(p) == IsSpace(v[p + 1]) \/ ~IsSpace(v[p])
        IN  IF c = 0 THEN editor' = editor
            ELSE \E pos \in 0..(c - 1) :
                  /\ pos = 0 \/ ~goesOn(pos)
                  /\ \A p \in (pos + 1)..(c - 1) : goesOn(p)
                  /\ editor'.killspace = [i \in 1..(c - pos) |-> v[pos + i]]
                  /\ editor'.value =
                         [i \in 1..(Len(v) - (c - pos)) |->
                             IF i <= pos THEN v[i] ELSE v[i + (c - pos)]]
                  /\ editor'.cursor = pos
                  /\ \E w \in pos..c :
                        /\ \A i \in (pos + 1)..w : ~IsSpace(v[i])
                        /\ \A i \in (w + 1)..c : IsSpace(v[i])
                        /\ w = pos => pos = 0
                  /\ pos = 0 \/ IsSpace(v[pos])]_vars

\* A word and the whitespace behind it were rubbed out, a word stays
C15_Witness ==
    /\ edOp.name = "rubout"
    /\ editor.killspace = <<"a", " ">>
    /\ editor.value = <<"a">>
    /\ editor.cursor = 0

\* C16 as stated: kill() sets killspace to value[c..end] whatever it held,
\* also with the cursor at the end of the value.
C16_Original ==
    [][edOp'.name = "kill" =>
        /\ editor'.killspace =
               SubSeq(editor.value, editor.cursor + 1, Len(editor.value))
        /\ editor'.value = SubSeq(editor.value, 1, editor.cursor)
        /\ editor'.cursor = editor.cursor]_vars

\* C16: kill() with the cursor at c < len(value) sets killspace to
\* value[c..end], whatever it held, and cuts the value to value[0..c); with
\* the cursor at the end of the value killspace keeps what it held and the
\* value does not change.  The cursor stays at c.
C16_KillToEnd ==
    [][edOp'.name = "kill" =>
        /\ editor'.killspace =
               IF editor.cursor < Len(editor.value)
               THEN [i \in 1..(Len(editor.value) - editor.cursor) |->
                        editor.value[editor.cursor + i]]
               ELSE editor.killspace
        /\ editor'.value =
               [i \in 1..editor.cursor |-> editor.value[i]]
        /\ editor'.cursor = editor.cursor]_vars

\* Two runes were killed behind the one that stays
C16_Witness ==
    /\ edOp.name = "kill"
    /\ editor.killspace = <<" ", "a">>
    /\ editor.value = <<"a">>
    /\ editor.cursor = 1

----------------------------------------------------------------------------
(* Properties of the BufView *)

\* The lines of the Buf that the view shows: its newlines and one
LinesOf(b) == Cardinality({i \in 1..b.n : b.bytes[i] = "\n"}) + 1

\* C17 as stated: in every state of the loop of main, whatever the scroll
\* keys, the growth of the Bufs and the restarts that rebind the view,
\* 0 <= Y <= max(0, total_lines - 1) for the Buf of the view, and X >= 0.
C17_Original ==
    /\ viewX >= 0
    /\ viewY >= 0
    /\ viewY <= Max(0, LinesOf(ViewBuf) - 1)

\* C18: HandleKey with Up/Down changes Y by -1/+1 and with PgUp/PgDn by
\* the page size, and then clamps Y to [0, line_count - 1], line_count
\* being the newlines in [0, n) plus 1; with Ctrl/Alt+Left/Right it changes
\* X by -8/+8, not below 0; with Ctrl/Alt+Home it sets X = 0; for these
\* keys it returns true; for any other key it returns false and changes
\* neither X nor Y.
C18_HandleKey ==
    [][LET k == vOp'.key
           page == vOp'.scrollY
           last == LinesOf(ViewBuf) - 1
           clamp(y) == IF y < 0 THEN 0 ELSE IF y > last THEN last ELSE y
       IN  /\ k = "up" => (viewY' = clamp(viewY - 1) /\ viewX' = viewX)
           /\ k = "down" => (viewY' = clamp(viewY + 1) /\ viewX' = viewX)
           /\ k = "pgup" => (viewY' = clamp(viewY - page) /\ viewX' = viewX)
           /\ k = "pgdn" => (viewY' = clamp(viewY + page) /\ viewX' = viewX)
           /\ k = "left" =>
                /\ viewX' = (IF viewX < 8 THEN 0 ELSE viewX - 8)
                /\ viewY' = viewY
           /\ k = "right" => (viewX' = viewX + 8 /\ viewY' = viewY)
           /\ k = "home" => (viewX' = 0 /\ viewY' = viewY)
           /\ vOp'.handled <=>
                k \in {"up", "down", "pgup", "pgdn", "left", "right", "home"}
           /\ ~vOp'.handled => (viewX' = viewX /\ viewY' = viewY)
    ]_vars

\* A page down to the last of four lines, scrolled to the right
C18_Witness ==
    /\ vOp.key = "pgdn"
    /\ vOp.scrollY = 2
    /\ vOp.handled
    /\ viewY = 3
    /\ viewX = 8

RECURSIVE LineAt(_, _)
LineAt(runes, y) ==
    IF y = 0 THEN FirstLine(runes).line
    ELSE LineAt(FirstLine(runes).rest, y - 1)

\* The columns that the runes of a line take
RECURSIVE WidthOf(_)
WidthOf(line) ==
    IF line = <<>> THEN 0
    ELSE (IF Head(line) = "W" THEN 2 ELSE 1) + WidthOf(Tail(line))

\* The runes that DrawTo has drawn from: the tabs expanded, Y lines skipped
DrawnText ==
    Expand(Decode(SkipLines(SubSeq(ViewBuf.bytes, 1, ViewBuf.n), viewY)), 0)

\* C20 as stated: a row whose line is wider than W has the right marker
\* in its last column, and with X > 0 a row whose line is not empty has
\* the left marker in column 0.
C20_Original ==
    draws >= 1 =>
        \A y \in 0..(region.H - 1) :
            LET line == LineAt(DrawnText, y)
            IN  /\ WidthOf(line) > region.W =>
                     screen[y][region.W - 1] = ">>"
                /\ (viewX > 0 /\ line # <<>>) => screen[y][0] = "<<"

\* C20: in a Region of two columns or more, a row whose line is wider than
\* X + W has the right marker in its last column; in a Region of three
\* columns or more, with X > 0 a row whose line is not empty has the left
\* marker in column 0.
C20_Markers ==
    draws >= 1 =>
        \A y \in 0..(region.H - 1) :
            LET line == LineAt(DrawnText, y)
            IN  /\ (region.W >= 2 /\ WidthOf(line) > viewX + region.W) =>
                     screen[y][region.W - 1] = ">>"
                /\ (region.W >= 3 /\ viewX > 0 /\ line # <<>>) =>
                     screen[y][0] = "<<"

\* A row that is cut on both sides
C20_Witness ==
    /\ draws >= 1
    /\ region.W = 3
    /\ viewX = 1
    /\ screen[0][0] = "<<"
    /\ screen[0][2] = ">>"
    /\ WidthOf(LineAt(DrawnText, 0)) > viewX + region.W

\* The column of the screen where rune k of a line starts
ColumnOf(line, k) == WidthOf(SubSeq(line, 1, k - 1)) - viewX

\* Rune k of a line is the last one placed before a rune that starts at
\* column W
LastBeforeW(line, k) ==
    /\ k < Len(line)
    /\ ColumnOf(line, k + 1) = region.W

\* What C21 and its amended form share, for rune k of the line of row y:
\* a rune across the left edge is drawn as left markers, and the last rune
\* placed before one that starts at column W as right markers
RuneMarked(y, line, k) ==
    LET p == ColumnOf(line, k)
        w == WidthOf(<<line[k]>>)
    IN  /\ (p < 0 /\ p + w > 0 /\ ~LastBeforeW(line, k)) =>
                \A c \in 0..(Min(p + w, region.W) - 1) : screen[y][c] = "<<"
        /\ LastBeforeW(line, k) =>
                \A c \in Max(0, p)..(region.W - 1) : screen[y][c] = ">>"

\* C21 as stated: in every row, a rune across the left edge shows as left
\* markers in [0, x+w), a rune across the right edge as right markers in
\* [x, W), the last rune placed before one that starts at column W as right
\* markers, and every other rune inside the viewport is in the cell of its
\* column.
C21_Original ==
    draws >= 1 =>
        \A y \in 0..(region.H - 1) :
            LET line == LineAt(DrawnText, y)
            IN  \A k \in 1..Len(line) :
                    LET p == ColumnOf(line, k)
                        w == WidthOf(<<line[k]>>)
                    IN  /\ RuneMarked(y, line, k)
                        /\ (p >= 0 /\ p < region.W /\ p + w > region.W) =>
                              \A c \in p..(region.W - 1) :
                                  screen[y][c] = ">>"
                        /\ (p >= 0 /\ p + w <= region.W
                                /\ ~LastBeforeW(line, k)) =>
                              screen[y][p] = line[k]

\* C21: the same, but the rune at column 0 of a row whose text is cut on
\* the left (X > 0) shows as left markers in its columns, whether it fits
\* the viewport or is across the right edge; the rule of the right edge and
\* the rule of the other runes are for the runes elsewhere.
C21_WideRunes ==
    draws >= 1 =>
        \A y \in 0..(region.H - 1) :
            LET line == LineAt(DrawnText, y)
            IN  \A k \in 1..Len(line) :
                    LET p == ColumnOf(line, k)
                        w == WidthOf(<<line[k]>>)
                        cut == p = 0 /\ viewX > 0
                    IN  /\ RuneMarked(y, line, k)
                        /\ (cut /\ ~LastBeforeW(line, k)) =>
                              \A c \in 0..(Min(w, region.W) - 1) :
                                  screen[y][c] = "<<"
                        /\ (p >= 0 /\ p < region.W /\ p + w > region.W
                                /\ ~cut) =>
                              \A c \in p..(region.W - 1) :
                                  screen[y][c] = ">>"
                        /\ (p >= 0 /\ p + w <= region.W /\ ~cut
                                /\ ~LastBeforeW(line, k)) =>
                              screen[y][p] = line[k]

\* A wide rune that ends at column W and is followed by a letter shows as
\* two right markers
C21_Witness ==
    /\ draws >= 1
    /\ region.W = 2
    /\ viewX = 0
    /\ LineAt(DrawnText, 0) = <<"W", "a">>
    /\ screen[0][0] = ">>"
    /\ screen[0][1] = ">>"

----------------------------------------------------------------------------
(* Properties of the tabExpander, checked under TabSpec *)

IsPrefix(a, b) == Len(a) <= Len(b) /\ a = SubSeq(b, 1, Len(a))

\* The runes with each tab replaced by the 1 to 8 spaces that bring the
\* column to the next multiple of 8, the column being col before the first
\* rune, growing by the display width of each rune and being 0 again
\* behind each of the runes in resets
RECURSIVE TabsReplaced(_, _, _)
TabsReplaced(runes, col, resets) ==
    IF runes = <<>> THEN <<>>
    ELSE LET r == Head(runes)
         IN  IF r = "\t"
             THEN LET k == CHOOSE k \in 1..8 : (col + k) % 8 = 0
                  IN  Spaces(k) \o TabsReplaced(Tail(runes), col + k, resets)
             ELSE <<r>> \o TabsReplaced(Tail(runes),
                                        IF r \in resets THEN 0
                                        ELSE col + RuneWidth(r), resets)

\* What a tabExpander has returned is the start of want, and all of it once
\* ReadRune returns io.EOF; without a tab it returns what it was given
ReturnsOnly(want) ==
    /\ IsPrefix(tabs.out, want)
    /\ AtEOF(tabs) => tabs.out = want
    /\ (AtEOF(tabs) /\ \A i \in 1..Len(tabs.in) : tabs.in[i] # "\t") =>
            tabs.out = tabs.in

\* C22 as stated: the column is 0 again behind every newline, and only
\* there.
C22_Original == ReturnsOnly(TabsReplaced(tabs.in, 0, {"\n"}))

\* C22: a tabExpander returns the runes of its input, each tab replaced by
\* the shortest run of 1 to 8 spaces that brings the column to the next
\* multiple of 8; the column counts display widths and is 0 again behind
\* every newline and every carriage return.  Without tabs the output is the
\* input.
C22_TabExpander == ReturnsOnly(TabsReplaced(tabs.in, 0, {"\n", "\r"}))

\* Seven letters and a wide rune take nine columns: the tab behind them
\* has given seven spaces, and the letter that follows is returned
C22_Witness ==
    /\ AtEOF(tabs)
    /\ Len(tabs.in) = 10
    /\ tabs.in[8] = "W"
    /\ tabs.in[9] = "\t"
    /\ tabs.in[10] = "a"
    /\ Len(tabs.out) = 16
    /\ tabs.out[15] = " "
    /\ tabs.out[16] = "a"

----------------------------------------------------------------------------
(* Properties of the tabs in a BufView, checked under TabDrawSpec *)

\* The runes of the line of row 0, its tabs not expanded
RawLine ==
    FirstLine(Decode(SkipLines(SubSeq(ViewBuf.bytes, 1, ViewBuf.n),
                               viewY))).line

\* The columns that the viewport gives the start of a line: each rune its
\* width, each tab up to the next multiple of 8
RECURSIVE LaidOut(_, _)
LaidOut(runes, col) ==
    IF runes = <<>> THEN col
    ELSE LaidOut(Tail(runes),
                 IF Head(runes) = "\t" THEN (col \div 8 + 1) * 8
                 ELSE col + WidthOf(<<Head(runes)>>))

\* C23 as stated: in the row of a line, the rune behind a tab is in the
\* cell of column T - X, T being the next multiple of 8 behind the columns
\* that the viewport gives the text before the tab (when that cell is in
\* the viewport and is not the place of a marker), and the row starts with
\* the left marker when the spaces of the tab are cut by the left edge.
C23_Original ==
    draws >= 1 =>
        \A k \in 1..(Len(RawLine) - 1) :
            LET before == LaidOut(SubSeq(RawLine, 1, k - 1), 0)
                T == (before \div 8 + 1) * 8
                c == T - viewX
                w == WidthOf(<<RawLine[k + 1]>>)
            IN  (/\ RawLine[k] = "\t"
                 /\ RawLine[k + 1] # "\t"
                 /\ c > 0
                 /\ \/ c + w < region.W
                    \/ c + w = region.W /\ k + 1 = Len(RawLine))
                => /\ screen[0][c] = RawLine[k + 1]
                   /\ before < viewX => screen[0][0] = "<<"

----------------------------------------------------------------------------------------------------------------------------------------
(* Properties of capture and of the readers, checked under BufSpec *)

\* The capture task leaves the locked part of its step
CaptureStep == capPc = "locked" /\ capPc' \notin {"locked", "wait"}

\* C26: when the source returns a read error other than EOF, the capture
\* task terminates, the status of the buffer becomes EOF, and the process
\* keeps running.
C26_Original ==
    [][ (CaptureStep /\ capRes.err = "error") =>
            /\ capPc' = "done"
            /\ stdinCapture'.status = "bufEOF"
            /\ Running' ]_vars

\* C27 as stated: a capture step that leaves n = capacity ends the capture
\* task and makes the status EOF.
C27_Original ==
    [][ (CaptureStep /\ stdinCapture'.n = stdinCapture'.cap) =>
            /\ capPc' = "done"
            /\ stdinCapture'.status = "bufEOF" ]_vars

\* C27 (amended): a capture step that leaves n = capacity ends the capture
\* task, which reads and publishes nothing from then on; the step makes the
\* status EOF only when the source signalled EOF and leaves it as it was
\* otherwise; and Pause(true) and Pause(false) still switch a full buffer
\* whose status is not EOF between Paused and Reading.
C27_FullStopsReading ==
    [][ /\ (CaptureStep /\ stdinCapture'.n = stdinCapture'.cap) =>
            /\ capPc' = "done"
            /\ stdinCapture'.status =
                    IF capRes.err = "EOF" THEN "bufEOF"
                    ELSE stdinCapture.status
        /\ capPc = "done" =>
            /\ capPc' = "done"
            /\ inpos' = inpos
            /\ stdinCapture'.n = stdinCapture.n
            /\ stdinCapture'.bytes = stdinCapture.bytes
        /\ (stdinCapture.n = stdinCapture.cap /\ capPc = "done") =>
            /\ (CallPause(TRUE) /\ stdinCapture.status = "bufReading") =>
                    stdinCapture'.status = "bufPaused"
            /\ (CallPause(FALSE) /\ stdinCapture.status = "bufPaused") =>
                    stdinCapture'.status = "bufReading"
            /\ stdinCapture.status = "bufEOF" =>
                    stdinCapture'.status = "bufEOF" ]_vars

\* A buffer filled by its capture task, and paused after that
C27_Witness ==
    /\ stdinCapture.cap > 0
    /\ stdinCapture.n = stdinCapture.cap
    /\ capPc = "done"
    /\ stdinCapture.status = "bufPaused"

\* C30: the cursor i of a reader stays within 0..n and never decreases,
\* what the reader has returned so far is the first i bytes of the
\* producer, a snapshot reader returns a prefix of the producer's bytes
\* that is not longer than n, and the first n bytes of the buffer never
\* change while n never decreases.
C30_ReadersSeePublished ==
    [][ /\ 0 <= rd'.i /\ rd'.i <= stdinCapture'.n
        /\ rd'.i <= inpos' - capRes'.n
        /\ rd'.got = SubSeq(input, 1, rd'.i)
        /\ rd'.i < rd.i => (rd.pc \in {"none", "done"} /\ rd' = NewReader)
        /\ Len(shown') <= stdinCapture'.n
        /\ shown' = SubSeq(input, 1, Len(shown'))
        /\ stdinCapture'.n >= stdinCapture.n
        /\ SubSeq(stdinCapture'.bytes, 1, stdinCapture.n) =
                SubSeq(stdinCapture.bytes, 1, stdinCapture.n) ]_vars

\* A reader has returned some of the published bytes while the source has
\* read more that are not published yet
C30_Witness ==
    /\ rd.pc = "ret"
    /\ rd.i > 0
    /\ Len(rd.got) = rd.i
    /\ rd.i < stdinCapture.n
    /\ capPc = "locked"
    /\ capRes.n > 0

----------------------------------------------------------------------------------------------------------------------------------------
(* Properties of a paused Buf, checked under BufSpec *)

\* C33: while the status is Paused nothing is published: no step taken
\* from a paused buffer changes n, makes the status EOF, or changes the
\* status otherwise than by Pause(false) to Reading; what the source has
\* delivered, and its EOF, are published only by a step taken when the
\* status is Reading again, the capture task waiting until then.
C33_PausedPublishesNothing ==
    [][ /\ stdinCapture.status = "bufPaused" =>
            /\ stdinCapture'.n = stdinCapture.n
            /\ stdinCapture'.status \in {"bufPaused", "bufReading"}
            /\ stdinCapture'.status = "bufReading" => CallPause(FALSE)
            /\ capPc \in {"locked", "wait"} =>
                    (capPc' \in {"locked", "wait"} /\ capRes' = capRes)
        /\ (\/ stdinCapture'.n # stdinCapture.n
            \/ stdinCapture'.status = "bufEOF"
                    /\ stdinCapture.status # "bufEOF") =>
            /\ stdinCapture.status = "bufReading"
            /\ capPc = "locked"
            /\ stdinCapture'.n = stdinCapture.n + capRes.n
            /\ stdinCapture'.status = "bufEOF" <=> capRes.err = "EOF" ]_vars

\* The source has reached EOF behind its last bytes during a pause: the
\* capture task waits, and the buffer is Paused with those bytes published
C33_Witness ==
    /\ stdinCapture.status = "bufPaused"
    /\ capPc = "wait"
    /\ capRes.err = "EOF"
    /\ inpos = Len(input)
    /\ stdinCapture.n = Len(input)
    /\ Len(input) > 0

----------------------------------------------------------------------------
(* Properties of a Buf in the end, checked under FairBufSpec *)

\* The buffer is not paused any more from some moment on
FinallyResumed == <>[](stdinCapture.status # "bufPaused")

\* The published bytes are those of the producer
HoldsInput == SubSeq(stdinCapture.bytes, 1, stdinCapture.n) = input

\* C34 as stated: when the producer's bytes fit into the buffer and the
\* calls of Pause end with the buffer resumed, the buffer finally holds
\* exactly those bytes and has status EOF (unless a failing read has
\* aborted the process).
C34_Original ==
    (Len(input) <= stdinCapture.cap /\ FinallyResumed) =>
        <>(capPc = "panic"
            \/ (HoldsInput /\ stdinCapture.status = "bufEOF"))

\* C34 (amended): the published bytes are always a prefix of the
\* producer's bytes; and when these fit into the buffer and the calls of
\* Pause end with the buffer resumed, the capture task finally ends with
\* exactly the producer's bytes in the buffer, and with status EOF if
\* they are fewer than the capacity (unless a failing read has aborted
\* the process).
C34_AllBytesInTheEnd ==
    /\ [](/\ stdinCapture.n <= Len(input)
          /\ SubSeq(stdinCapture.bytes, 1, stdinCapture.n) =
                SubSeq(input, 1, stdinCapture.n))
    /\ (Len(input) <= stdinCapture.cap /\ FinallyResumed) =>
            <>(capPc = "panic"
                \/ /\ HoldsInput
                   /\ capPc = "done"
                   /\ Len(input) < stdinCapture.cap =>
                        stdinCapture.status = "bufEOF")

\* All bytes are there and the status is EOF after a redraw has shown the
\* buffer paused with a part of them
C34_Witness ==
    /\ capPc = "done"
    /\ stdinCapture.status = "bufEOF"
    /\ HoldsInput
    /\ Len(input) >= 2
    /\ glyph = "#"
    /\ shown # <<>>
    /\ Len(shown) < Len(input)

\* The blocking reader has something to return: bytes behind its cursor,
\* or io.EOF because of the status EOF or of a full buffer
ReaderHasResult ==
    \/ rd.i < stdinCapture.n
    \/ stdinCapture.status = "bufEOF"
    \/ stdinCapture.n = stdinCapture.cap

\* C35: no wake-up is lost.  A blocking reader sleeps in b.cond.Wait() only
\* while its cursor is at n, the status is Reading and the buffer is not
\* full; and a reader that waits or has been woken when n is beyond its
\* cursor, the status is EOF or the buffer is full returns from Read in
\* the end (unless a failing read has aborted the process).
C35_NoLostWakeup ==
    /\ [](rd.pc = "wait" =>
            /\ rd.i = stdinCapture.n
            /\ stdinCapture.status = "bufReading"
            /\ stdinCapture.n < stdinCapture.cap)
    /\ (rd.pc \in {"wait", "woken"} /\ ReaderHasResult)
            ~> (rd.pc = "ret" \/ capPc = "panic")

\* The reader has read all there was, has waited, and has been woken by
\* the step of capture that set the status EOF
C35_Witness ==
    /\ rd.pc = "woken"
    /\ ~rd.sawPause
    /\ stdinCapture.status = "bufEOF"
    /\ rd.i = stdinCapture.n
    /\ stdinCapture.n > 0

----------------
(* Properties of the steps of main, checked under FairSubSpec *)

\* C28: no step of the event loop but the polling for the next event blocks
\* for ever; in particular a StartSubprocess that is writing the error of
\* cmd.Start() into the output pipe returns to the loop (unless the whole
\* process has been aborted by then), whatever the capacity of the buffers.
C28_Original == (pc = "fprintf") ~> (pc = "poll" \/ ~Running)

----------------------------------------------------------------------------
(* Properties of notify, checked under NotifySpec *)

\* The notifications that are under way or have caused the last redraw
Notified(nf) ==
    {nf.spawned[i] : i \in 1..Len(nf.spawned)}
        \cup {nf.queued[i] : i \in 1..Len(nf.queued)}
        \cup {nf.cause[i] : i \in 1..Len(nf.cause)}

\* C29: every step of the capture task, the last one included, starts
\* notify(), and starts it only when the locked part of the step is over:
\* all that the source has handed over by then is published in n, and the
\* status is EOF when the source has signalled EOF. When notify runs it
\* posts an event unless the queue is full, and the redraw that follows
\* the polling of such an event reads at least the n of the step that
\* caused it, and draws the glyph of EOF when that step had seen EOF.
C29_NotifyAfterPublish ==
    [][ /\ (capPc' \in {"read", "done", "panic"} /\ capPc' # capPc) =>
            /\ capPc = "go"
            /\ Len(notifs'.spawned) = Len(notifs.spawned) + 1
            /\ notifs'.spawned[Len(notifs'.spawned)] =
                    [n |-> stdinCapture.n,
                     eof |-> stdinCapture.status = "bufEOF"]
        /\ (capPc = "locked" /\ capPc' \notin {"locked", "wait"}) =>
            /\ capPc' = "go"
            /\ notifs' = notifs
            /\ stdinCapture'.n = inpos
            /\ capRes.err = "EOF" => stdinCapture'.status = "bufEOF"
        /\ Len(notifs'.spawned) < Len(notifs.spawned) =>
            interrupts' = Min(interrupts + 1, MaxPending)
        /\ \A t \in Notified(notifs') :
            /\ t.n <= stdinCapture'.n
            /\ t.eof => stdinCapture'.status = "bufEOF"
        /\ (pc = "draw" /\ pc' = "poll") =>
            \A t \in Notified([NoNotifs EXCEPT !.cause = notifs.cause]) :
                /\ Len(shown') >= t.n
                /\ t.eof => glyph' = " " ]_vars

\* The redraw after the notification of the last step, which saw EOF
C29_Witness ==
    /\ pc = "poll"
    /\ capPc = "done"
    /\ notifs.cause # <<>>
    /\ notifs.cause[1].eof
    /\ notifs.cause[1].n > 0
    /\ Len(shown) = notifs.cause[1].n
    /\ glyph = " "

----------------
(* Properties of writeScript, checked under ScriptSpec *)

\* The names of the files that sc has, written to the end and closed
WrittenNames(sc) == {f.name : f \in sc.written}

\* The names of the written files of sc whose text has the line cmd
NamesHolding(sc, cmd) ==
    {f.name : f \in {g \in sc.written :
        \E k \in 1..(Len(g.text) - 1) :
            g.text[k] = cmd /\ g.text[k + 1] = "\n"}}

\* The pipeline is on stderr
PrintedToStderr(sc, cmd) ==
    \E k \in 1..(Len(sc.stderr) - 1) :
        sc.stderr[k] = "up: | " /\ sc.stderr[k + 1] = cmd

\* nm is the file that writeScript has to choose
IsChosenFile(sc, nm) ==
    IF sc.output # "" THEN nm = sc.output
    ELSE \E i \in 1..MaxScripts :
            /\ nm = ScriptName(i)
            /\ i \notin sc.exist
            /\ \A j \in 1..(i - 1) : j \in sc.exist

C25_Original ==
    script.pc = "done" =>
        \A f \in script.written :
            f.text = <<"#!", script.shell[1], "\n", command, "\n">>

----------------------------------------------------------------------------
(* Properties of DrawTo past the end of the Buf, checked under DrawSpec *)

\* The bytes that the view's Buf has published
ViewBytes == SubSeq(ViewBuf.bytes, 1, ViewBuf.n)

\* The bytes behind the last newline
RECURSIVE LastLineOf(_)
LastLineOf(data) ==
    IF \E i \in 1..Len(data) : data[i] = "\n"
    THEN LastLineOf(Tail(data))
    ELSE data

\* The Buf has fewer complete lines than Y
EndBeforeY == Count(ViewBytes, "\n") < viewY

----------------------------------------------------------------------------
(* Properties of Ctrl-S and Ctrl-Q, checked under Spec *)

----------------------------------------------------------------------------
(* Properties of the binding of the view, checked under Spec *)

\* C36: at every redraw, and while main waits for the event that follows
\* it, the view is bound to the output buffer of the current subprocess if
\* there is one and to the stdin buffer otherwise, and the redraw shows
\* what that buffer has published; there is no current subprocess exactly
\* when lastCommand is empty; and the subprocess whose buffer the view is
\* bound to is the one started last and has not been killed.
C36_ViewBinding ==
    /\ [](pc \in {"draw", "poll"} =>
            /\ view = current
            /\ current = 0 <=> lastCommand = ""
            /\ view # 0 => (view = sid /\ view \notin cancelled))
    /\ [][(pc = "draw" /\ pc' = "poll") =>
            shown' = IF current = 0
                     THEN SubSeq(stdinCapture.bytes, 1, stdinCapture.n)
                     ELSE SubSeq(out.bytes, 1, out.n)]_vars

\* The redraw shows the output of the second subprocess, the first one
\* having been killed
C36_Witness ==
    /\ pc = "poll"
    /\ sid = 2
    /\ view = 2
    /\ 1 \in cancelled
    /\ shown # <<>>
    /\ shown = SubSeq(out.bytes, 1, out.n)
    /\ shown # SubSeq(stdinCapture.bytes, 1, stdinCapture.n)

----------------------------------------------------------------------------
(* Properties of the calls of SetCell, checked under DrawSpec *)

\* The columns at which the runes of a line start, the first one at x
RECURSIVE ColumnsFrom(_, _)
ColumnsFrom(line, x) ==
    IF line = <<>> THEN {}
    ELSE {x} \cup ColumnsFrom(Tail(line),
                              x + (IF Head(line) = "W" THEN 2 ELSE 1))

\* C37 as stated: DrawTo calls region.SetCell only with 0 <= x < W and
\* 0 <= y < H.
C37_Original ==
    draws >= 1 =>
        \A c \in setcells :
            /\ 0 <= c.x /\ c.x < region.W
            /\ 0 <= c.y /\ c.y < region.H

\* C37 (amended): DrawTo calls region.SetCell only with 0 <= y < H and
\* 0 <= x, but not only with x < W: every rune of a row's line that starts
\* behind column W is passed to SetCell at its own column x > W, and these
\* are the only calls outside of the Region.
C37_SetCellCoordinates ==
    draws >= 1 =>
        LET text == DrawnText
            behind == [y \in 0..(region.H - 1) |->
                          LET line == LineAt(text, y)
                          IN  {col \in ColumnsFrom(line, -viewX) :
                                  col > region.W}]
        IN  /\ \A c \in setcells :
                /\ 0 <= c.y /\ c.y < region.H
                /\ 0 <= c.x
                /\ c.x >= region.W => c.x \in behind[c.y]
            /\ \A y \in 0..(region.H - 1) :
                \A col \in behind[y] :
                    \E c \in setcells : c.y = y /\ c.x = col

\* A rune has been passed to SetCell two columns behind the Region
C37_Witness ==
    /\ draws >= 1
    /\ region.W = 1
    /\ viewX = 0
    /\ \E c \in setcells : c.y = 0 /\ c.x = 2

\* The cells of a frame drawn before
Stale(W, H) == [y \in 0..(H - 1) |-> [x \in 0..(W - 1) |-> "old"]]

\* C38: a call of DrawTo assigns every cell of the Region, a rune of width
\* w counting for its w columns: each cell is covered by a call of SetCell
\* of this DrawTo; drawn over any earlier frame, no cell keeps what that
\* frame had but the one behind a wide rune; behind the text of its line
\* (and behind the left marker) a row holds spaces up to W, as do all the
\* rows behind the end of the Buf.
C38_EveryCellAssigned ==
    draws >= 1 =>
        LET fresh == DrawTo(ViewBuf, viewX, viewY, region.W, region.H,
                            Stale(region.W, region.H))
        IN  \A y \in 0..(region.H - 1) :
            \A x \in 0..(region.W - 1) :
                /\ \E c \in setcells :
                        c.y = y /\ c.x <= x /\ x < c.x + c.w
                /\ fresh[y][x] = "old" => (x > 0 /\ fresh[y][x - 1] = "W")
                /\ fresh[y][x] # "old" => screen[y][x] = fresh[y][x]
                /\ (/\ x >= WidthOf(LineAt(DrawnText, y)) - viewX
                    /\ x >= 1 \/ viewX = 0 \/ LineAt(DrawnText, y) = <<>>)
                        => screen[y][x] = " "

\* A frame with a wide rune, a padded row and a row behind the end of the
\* Buf
C38_Witness ==
    /\ draws >= 1
    /\ region.W = 3
    /\ region.H = 2
    /\ viewX = 0
    /\ viewY = 0
    /\ screen[0][0] = "W"
    /\ screen[0][2] = " "
    /\ screen[1][0] = " "
    /\ Count(ViewBytes, "\n") = 0
    /\ [x |-> 0, y |-> 0, w |-> 2] \in setcells

====
